---- MODULE Spec2Model ----
(***************************************************************************)
(* RelatorioRotinaTool (src/src/tools/CodeReviewTool.ts): the routine      *)
(* classifier with its process-lifetime cache, the discovery pass, the     *)
(* file indexer, the routine finder and the search-by-table scan, driven   *)
(* by the stdin handler, which can start a request while an earlier one    *)
(* awaits file I/O.                                                        *)
(*                                                                         *)
(* Strings are TLA+ strings; characters are strings of length one.         *)
(***************************************************************************)
EXTENDS Integers, Sequences, FiniteSets, TLC

\* ------------------------------------------------------------------ text

Ch(s, i) == SubSeq(s, i, i)

LowerLetters == "abcdefghijklmnopqrstuvwxyz"
UpperLetters == "ABCDEFGHIJKLMNOPQRSTUVWXYZ"
Digits == "0123456789"

\* 0 when c does not occur in s, else the first index of c in s
IndexIn(c, s) ==
  LET hits == {i \in 1..Len(s) : Ch(s, i) = c}
  IN IF hits = {} THEN 0 ELSE CHOOSE i \in hits : \A j \in hits : i <= j

CharsOf(s) == {Ch(s, i) : i \in 1..Len(s)}
UpperSet == CharsOf(UpperLetters)
LowerSet == CharsOf(LowerLetters)
DigitSet == CharsOf(Digits)
WordSet == UpperSet \cup LowerSet \cup DigitSet \cup {"_"}
UpperMap == [c \in LowerSet |-> Ch(UpperLetters, IndexIn(c, LowerLetters))]
LowerMap == [c \in UpperSet |-> Ch(LowerLetters, IndexIn(c, UpperLetters))]

IsUpperLetter(c) == c \in UpperSet
IsLowerLetter(c) == c \in LowerSet
IsDigit(c) == c \in DigitSet
\* \w of a JavaScript regular expression
IsWordChar(c) == c \in WordSet
\* \s of a JavaScript regular expression (the characters the files hold)
IsSpace(c) == c \in {" ", "\n", "\t", "\r"}

UpperChar(c) == IF c \in LowerSet THEN UpperMap[c] ELSE c
LowerChar(c) == IF c \in UpperSet THEN LowerMap[c] ELSE c

RECURSIVE MapChars(_, _, _, _)
\* the characters lo..hi of s, each mapped to upper (up) or lower case
MapChars(s, lo, hi, up) ==
  IF lo > hi THEN ""
  ELSE IF lo = hi THEN (IF up THEN UpperChar(Ch(s, lo)) ELSE LowerChar(Ch(s, lo)))
  ELSE LET mid == (lo + hi) \div 2
       IN MapChars(s, lo, mid, up) \o MapChars(s, mid + 1, hi, up)

\* String.prototype.toUpperCase / toLowerCase
ToUpper(s) == MapChars(s, 1, Len(s), TRUE)
ToLower(s) == MapChars(s, 1, Len(s), FALSE)

\* String.prototype.startsWith / endsWith / includes
StartsWith(s, p) == Len(s) >= Len(p) /\ SubSeq(s, 1, Len(p)) = p
EndsWith(s, p) == Len(s) >= Len(p) /\ SubSeq(s, Len(s) - Len(p) + 1, Len(s)) = p
Includes(s, p) == \E i \in 1..(Len(s) - Len(p) + 1) : SubSeq(s, i, i + Len(p) - 1) = p

\* ---------------------------------------------------- regular expressions
\* A pattern is a sequence of elements [k, c, q]: k the class of character
\* ("lit" the character c, "ws" \s, "w" \w, "quote" ["'], "any" . under the
\* s flag, "AZ" [A-Z], "d" \d, "b" the zero-width \b), q the quantifier
\* ("1", "?", "*", "+").

El(k, c, q) == [k |-> k, c |-> c, q |-> q]

RECURSIVE LitFrom(_, _)
LitFrom(s, i) == IF i > Len(s) THEN <<>> ELSE <<El("lit", Ch(s, i), "1")>> \o LitFrom(s, i + 1)
\* the pattern matching the literal text s
Lit(s) == LitFrom(s, 1)

CharOK(e, c) ==
  CASE e.k = "lit" -> c = e.c
    [] e.k = "ws" -> IsSpace(c)
    [] e.k = "w" -> IsWordChar(c)
    [] e.k = "quote" -> c \in {"\"", "'"}
    [] e.k = "any" -> TRUE
    [] e.k = "AZ" -> IsUpperLetter(c)
    [] e.k = "d" -> IsDigit(c)
    [] OTHER -> FALSE

\* \b holds at p (p characters consumed) when exactly one neighbour is a word character
IsBoundary(s, p) ==
  LET before == p >= 1 /\ IsWordChar(Ch(s, p))
      after == p < Len(s) /\ IsWordChar(Ch(s, p + 1))
  IN before # after

\* positions reachable from p by consuming characters of class e
Run(e, s, p) == {r \in p..Len(s) : \A j \in (p + 1)..r : CharOK(e, Ch(s, j))}

StepEl(e, s, P) ==
  LET one == {p + 1 : p \in {x \in P : x < Len(s) /\ CharOK(e, Ch(s, x + 1))}}
  IN CASE e.k = "b" -> {p \in P : IsBoundary(s, p)}
       [] e.q = "1" -> one
       [] e.q = "?" -> P \cup one
       [] e.q = "*" -> UNION {Run(e, s, p) : p \in P}
       [] e.q = "+" -> UNION {Run(e, s, p) : p \in one}
       [] OTHER -> {}

RECURSIVE Ends(_, _, _, _)
Ends(pat, i, s, P) ==
  IF i > Len(pat) \/ P = {} THEN P ELSE Ends(pat, i + 1, s, StepEl(pat[i], s, P))

\* the end positions of the matches of pat that start after `start` characters
MatchEnds(pat, s, start) == Ends(pat, 1, s, {start})

\* RegExp.prototype.test without the y flag: a match anywhere
RegexTest(pat, s) == \E start \in 0..Len(s) : MatchEnds(pat, s, start) # {}

\* RegExp.prototype.test of a pattern anchored with ^
RegexTestAnchored(pat, s) == MatchEnds(pat, s, 0) # {}

SetMax(S) == CHOOSE x \in S : \A y \in S : y <= x
SetMin(S) == CHOOSE x \in S : \A y \in S : x <= y

\* where the scan of a g-flag pattern resumes after the match b..e
Resume(b, e) == IF e > b THEN e ELSE b + 1

RECURSIVE CountMatches(_, _, _)
\* (s.match(/pat/g) || []).length: leftmost matches, scanned without overlap
CountMatches(pat, s, start) ==
  LET starts == {b \in start..Len(s) : MatchEnds(pat, s, b) # {}}
  IN IF starts = {} THEN 0
     ELSE LET b == SetMin(starts)
          IN 1 + CountMatches(pat, s, Resume(b, SetMax(MatchEnds(pat, s, b))))

\* ------------------------------------------------------------------ paths

\* index of the last occurrence of character c in s, 0 when there is none
LastIndexOf(c, s) ==
  LET hits == {i \in 1..Len(s) : Ch(s, i) = c}
  IN IF hits = {} THEN 0 ELSE SetMax(hits)

\* path.join(dir, name) for a plain name
PathJoin(dir, name) == IF name = "" THEN dir ELSE dir \o "/" \o name

\* path.basename(p)
Basename(p) == SubSeq(p, LastIndexOf("/", p) + 1, Len(p))

\* path.extname(p): from the last dot of the basename, "" when there is no dot
\* or the only dot is the first character
Extname(p) ==
  LET b == Basename(p)
      d == LastIndexOf(".", b)
  IN IF d <= 1 THEN "" ELSE SubSeq(b, d, Len(b))

\* path.basename(p, path.extname(p))
BasenameNoExt(p) ==
  LET b == Basename(p)
  IN SubSeq(b, 1, Len(b) - Len(Extname(p)))

\* ------------------------------------------------------------ file system
\* The source trees, fixed for the life of the process. A directory lists
\* its entries in readdir order; ok = FALSE is a directory or file whose
\* read fails.

FileE(name) == [name |-> name, dir |-> FALSE]
DirE(name) == [name |-> name, dir |-> TRUE]

ReadDir(dir) ==
  CASE dir = "/hml" ->
         [ok |-> TRUE, entries |-> <<FileE("MATA010.prw"), FileE("ZREL01.prw"), DirE("mod"),
                                     FileE("notes.txt"), DirE(".git")>>]
    [] dir = "/hml/mod" ->
         [ok |-> TRUE, entries |-> <<FileE("ZCAD002.prw"), FileE("ZCAD001.prw"), FileE("zbrw01.PRW")>>]
    [] dir = "/hml/.git" ->
         [ok |-> TRUE, entries |-> <<FileE("HOOK.prw")>>]
    [] dir = "/prd" ->
         [ok |-> TRUE, entries |-> <<FileE("APD.prw"), FileE("LOCKED.prw"), DirE("priv"),
                                     FileE("ZCAD001.prw"), FileE("NOREF.tlpp")>>]
    [] dir = "/prd/priv" ->
         [ok |-> FALSE, entries |-> <<>>]
    [] dir = "/std" ->
         [ok |-> TRUE, entries |-> <<FileE("MATA010.prw"), FileE("QQQA001.prx"), FileE("XCUS001.prw")>>]
    [] dir = "/std0" ->
         [ok |-> TRUE, entries |-> <<FileE("mata010.prw")>>]
    [] dir = "/dup" ->
         [ok |-> TRUE, entries |-> <<FileE("ZDUP.prw"), FileE("zdup.prw"), DirE("in"),
                                     DirE("zdir.prw")>>]
    [] dir = "/dup/in" ->
         [ok |-> TRUE, entries |-> <<FileE("zdup.prw"), FileE("zdeep.PRW"), DirE("in2")>>]
    [] dir = "/dup/in/in2" ->
         [ok |-> TRUE, entries |-> <<FileE("ZDEEP.prw"), DirE("in3")>>]
    [] dir = "/dup/in/in2/in3" ->
         [ok |-> TRUE, entries |-> <<FileE("zfar.prw"), DirE("in4")>>]
    [] dir = "/dup/in/in2/in3/in4" ->
         [ok |-> TRUE, entries |-> <<FileE("zlost.prw")>>]
    [] dir = "/tree" ->
         [ok |-> TRUE, entries |-> <<FileE("a.prw"), DirE("Backup"), FileE("B.PRW"),
                                     DirE("locked"), FileE("c.Tlpp"), DirE("NODE_MODULES"),
                                     FileE("d.prx"), DirE("sub"), FileE("e.txt"), DirE("bin"),
                                     FileE("noext"), DirE("backups"), DirE(".Git")>>]
    [] dir = "/tree/Backup" -> [ok |-> TRUE, entries |-> <<FileE("old.prw")>>]
    [] dir = "/tree/NODE_MODULES" -> [ok |-> TRUE, entries |-> <<FileE("dep.prw")>>]
    [] dir = "/tree/bin" -> [ok |-> TRUE, entries |-> <<FileE("out.prx")>>]
    [] dir = "/tree/.Git" -> [ok |-> TRUE, entries |-> <<FileE("hook.tlpp")>>]
    [] dir = "/tree/backups" -> [ok |-> TRUE, entries |-> <<FileE("j.prw"), FileE("k.bak")>>]
    [] dir = "/tree/sub" ->
         [ok |-> TRUE, entries |-> <<DirE("sub2"), FileE("f.prw"), DirE("OBJ")>>]
    [] dir = "/tree/sub/OBJ" -> [ok |-> TRUE, entries |-> <<FileE("f.prx")>>]
    [] dir = "/tree/sub/sub2" ->
         [ok |-> TRUE, entries |-> <<FileE("g.TLPP"), DirE("sub3")>>]
    [] dir = "/tree/sub/sub2/sub3" ->
         [ok |-> TRUE, entries |-> <<DirE("sub4"), FileE("h.prx")>>]
    [] dir = "/tree/sub/sub2/sub3/sub4" ->
         [ok |-> TRUE, entries |-> <<FileE("i.prw"), DirE("sub5")>>]
    [] dir = "/tree/sub/sub2/sub3/sub4/sub5" ->
         [ok |-> TRUE, entries |-> <<FileE("l.prw")>>]
    [] OTHER -> [ok |-> FALSE, entries |-> <<>>]

ReadFile(path) ==
  CASE path = "/hml/ZREL01.prw" ->
         [ok |-> TRUE, content |-> "User Function ZREL01()\nDbSelectArea(\"PD3\")\noRep := TReport():New()"]
    [] path = "/hml/mod/ZCAD002.prw" ->
         [ok |-> TRUE, content |-> "User Function ZCAD002()\nRecLock('PD3',.F.)\nPD3->(DbDelete())"]
    [] path = "/hml/mod/ZCAD001.prw" ->
         [ok |-> TRUE, content |-> "User Function ZCAD001()\nRecLock(\"PD3\", .T.)\nPD3->PD3_COD := 1\nPD3->(MsUnlock())"]
    [] path = "/hml/mod/zbrw01.PRW" ->
         [ok |-> TRUE, content |-> "User Function ZBRW01()\nmBrowse(6,1,22,75,\"PD3\")"]
    [] path = "/hml/notes.txt" ->
         [ok |-> TRUE, content |-> "PD3"]
    [] path = "/hml/.git/HOOK.prw" ->
         [ok |-> TRUE, content |-> "User Function HOOK()\nPD3->X"]
    [] path = "/hml/MATA010.prw" ->
         [ok |-> TRUE, content |-> "#INCLUDE \"PROTHEUS.CH\"\nFunction MATA010()\nDbSelectArea(\"PD3\")"]
    [] path = "/prd/APD.prw" ->
         [ok |-> TRUE, content |-> "User Function APD()\nAPD3->X := PD30"]
    [] path = "/prd/ZCAD001.prw" ->
         [ok |-> TRUE, content |-> "Static Function MenuDef()\nTCQUERY cQry\nPD3->(DbSkip())"]
    [] path = "/prd/NOREF.tlpp" ->
         [ok |-> TRUE, content |-> "User Function NOREF()\nxPD3 := PD3_COD"]
    [] path = "/std/MATA010.prw" ->
         [ok |-> TRUE, content |-> "#INCLUDE \"PROTHEUS.CH\"\nFunction MATA010()"]
    [] path = "/std/QQQA001.prx" ->
         [ok |-> TRUE, content |-> "Function QQQA001()"]
    [] path = "/std/XCUS001.prw" ->
         [ok |-> TRUE, content |-> "User Function XCUS001()"]
    [] path = "/std0/mata010.prw" ->
         [ok |-> TRUE, content |-> "Function MATA010()"]
    [] OTHER -> [ok |-> FALSE, content |-> ""]

\* ------------------------------------------------------- RoutineClassifier

KNOWN_STANDARD_PREFIXES ==
  { "FATA", "FATC", "FATR", "FATM", "MATA", "MATC", "MATR", "MATM",
    "FINA", "FINC", "FINR", "FINM", "FINXFUN",
    "COMA", "COMC", "COMR", "COMM",
    "GPEA", "GPEC", "GPER", "GPEM", "GPEXFUN",
    "MNTA", "MNTC", "MNTR", "MNTM",
    "PCPA", "PCPC", "PCPR", "PCPM",
    "QIEA", "QIEC", "QIER", "QIEM", "QIEXFUN",
    "TECA", "TECC", "TECR", "TECM", "TECXFUN",
    "CRMA", "CRMC", "CRMR", "CRMM", "TMKA", "TMKC", "TMKR", "TMKM",
    "JURA", "JURC", "JURR", "JURM",
    "VEICA", "VEICC", "VEICR", "OFIA", "OFIC", "OFIR", "OFIM",
    "CTBA", "CTBC", "CTBR", "CTBM", "CTBXFUN",
    "ESTA", "ESTC", "ESTR", "ESTM",
    "LOJA", "LOJC", "LOJR", "LOJM",
    "PONA", "PONC", "PONR", "PONM", "PONXFUN",
    "FISA", "FISC", "FISR", "FISM",
    "FWMVC", "FWBROWSE", "FWFORM", "APCFG", "APWIZ",
    "CFGA", "CFGC", "CFGR", "CFGM", "CFGX",
    "BIXA", "BIXC",
    "AGRA", "AGRC", "AGRR", "OMSA", "OMSC", "OMSR", "WFFA", "WFFC", "EICA", "EICC" }

\* routineName.toUpperCase().replace(/^U_/, ''): the cache key
UpperName(routineName) ==
  LET u == ToUpper(routineName)
  IN IF StartsWith(u, "U_") THEN SubSeq(u, 3, Len(u)) ELSE u

\* criterion 1 of isStandardRoutine
HasCustomPrefix(routineName) == StartsWith(ToUpper(routineName), "U_")

matchesKnownPrefix(routineName, discovered) ==
  \E prefix \in KNOWN_STANDARD_PREFIXES \cup discovered :
    StartsWith(routineName, ToUpper(prefix))

\* criterion 4 of isStandardRoutine: /^[A-Z]{4}\d{3}/
NamePattern ==
  <<El("AZ", "", "1"), El("AZ", "", "1"), El("AZ", "", "1"), El("AZ", "", "1"),
    El("d", "", "1"), El("d", "", "1"), El("d", "", "1")>>

ANALYZE_LINES == 200

\* the cut to the first n lines left out
FirstLines_All(content, n) == content

\* content.split('\n').slice(0, n).join('\n')
FirstLines(content, n) ==
  LET nl == {i \in 1..Len(content) : Ch(content, i) = "\n"}
  IN IF Cardinality(nl) < n THEN content
     ELSE LET cut == CHOOSE i \in nl : Cardinality({j \in nl : j <= i}) = n
          IN SubSeq(content, 1, cut - 1)

customIndicators ==
  { Lit("USER") \o <<El("ws", "", "+")>> \o Lit("FUNCTION"),
    Lit("FUNCTION") \o <<El("ws", "", "+")>> \o Lit("U_"),
    Lit("STATIC") \o <<El("ws", "", "+")>> \o Lit("FUNCTION") \o <<El("ws", "", "+")>> \o Lit("U_") }

standardIndicators ==
  { Lit("FUNCTION") \o <<El("ws", "", "+")>> \o NamePattern,
    Lit("#INCLUDE") \o <<El("ws", "", "+")>> \o Lit("\"PROTHEUS.CH\""),
    Lit("#INCLUDE") \o <<El("ws", "", "+")>> \o Lit("\"RWMAKE.CH\""),
    Lit("STATIC") \o <<El("ws", "", "+")>> \o Lit("FUNCTION") \o <<El("ws", "", "+")>> \o Lit("MENU"),
    Lit("WSSERVICE") \o <<El("ws", "", "+")>>,
    Lit("WSRESTFUL") \o <<El("ws", "", "+")>> }

\* analyzeFileContent on the text of a file that was read
analyzeContent(content) ==
  LET contentStr == ToUpper(FirstLines(content, ANALYZE_LINES))
  IN IF \E ind \in customIndicators : RegexTest(ind, contentStr) THEN FALSE
     ELSE IF \E ind \in standardIndicators : RegexTest(ind, contentStr) THEN TRUE
     ELSE TRUE

\* the try block of analyzeFileContent around the outcome r of readFile: a
\* failed read is caught and gives custom
AnalyzeRead(r) == IF r.ok THEN analyzeContent(r.content) ELSE FALSE

analyzeFileContent(filePath) == AnalyzeRead(ReadFile(filePath))

\* a faulty extraction: the first two letters
DiscoveredPrefixOf_TwoLetters(fileName) ==
  IF Len(fileName) >= 2 /\ IsUpperLetter(Ch(fileName, 1)) /\ IsUpperLetter(Ch(fileName, 2))
  THEN SubSeq(fileName, 1, 2) ELSE ""

\* the first 3 or 4 upper-case letters of fileName (/^([A-Z]{3,4})/), "" when
\* there is no match
DiscoveredPrefixOf(fileName) ==
  LET n == CHOOSE k \in 0..4 :
             /\ k <= Len(fileName)
             /\ \A j \in 1..k : IsUpperLetter(Ch(fileName, j))
             /\ (k = 4 \/ k = Len(fileName) \/ ~IsUpperLetter(Ch(fileName, k + 1)))
  IN IF n >= 3 THEN SubSeq(fileName, 1, n) ELSE ""

\* ------------------------------------------------------------- FileIndexer

\* a faulty list: backup folders are walked
ignoreDirs_NoBackup == {"node_modules", ".git", "bin", "obj"}

ignoreDirs == {"node_modules", ".git", "bin", "obj", "backup"}
SOURCE_EXTENSIONS == {".prw", ".tlpp", ".prx"}
LISTED_VARIATIONS == 10
DEFAULT_MAX_DEPTH == 5
FIND_MAX_DEPTH == 3
SEARCH_MAX_DEPTH == 5

RECURSIVE getAllFilesRecursive(_, _, _, _)
RECURSIVE WalkEntries(_, _, _, _, _, _)
WalkEntries(dir, entries, i, extensions, maxDepth, currentDepth) ==
  IF i > Len(entries) THEN <<>>
  ELSE LET entry == entries[i]
           fullPath == PathJoin(dir, entry.name)
           here ==
             IF entry.dir
             THEN IF ToLower(entry.name) \notin ignoreDirs
                  THEN getAllFilesRecursive(fullPath, extensions, maxDepth, currentDepth + 1)
                  ELSE <<>>
             ELSE IF ToLower(Extname(entry.name)) \in extensions THEN <<fullPath>> ELSE <<>>
       IN here \o WalkEntries(dir, entries, i + 1, extensions, maxDepth, currentDepth)

getAllFilesRecursive(dir, extensions, maxDepth, currentDepth) ==
  IF currentDepth > maxDepth THEN <<>>
  ELSE LET r == ReadDir(dir)
       IN IF r.ok THEN WalkEntries(dir, r.entries, 1, extensions, maxDepth, currentDepth)
          ELSE <<>>

\* ------------------------------------------------------------ NameResolver

\* String.prototype.trim
Trim(s) ==
  LET keep == {i \in 1..Len(s) : ~IsSpace(Ch(s, i))}
  IN IF keep = {} THEN ""
     ELSE SubSeq(s, SetMin(keep), SetMax(keep))

\* a faulty replace: the i flag is missing
StripExtension_CaseSensitive(original) ==
  LET hit == {e \in SOURCE_EXTENSIONS : EndsWith(original, e)}
  IN IF hit = {} THEN original
     ELSE SubSeq(original, 1, Len(original) - Len(CHOOSE e \in hit : TRUE))

\* original.replace(/\.(prw|tlpp|prx)$/i, '')
StripExtension(original) ==
  LET l == ToLower(original)
      hit == {e \in SOURCE_EXTENSIONS : EndsWith(l, e)}
  IN IF hit = {} THEN original
     ELSE SubSeq(original, 1, Len(original) - Len(CHOOSE e \in hit : TRUE))

\* a faulty list: the Set is left out
Dedupe_KeepAll(xs, seen) == xs

RECURSIVE Dedupe(_, _)
\* [...new Set(xs)]: the first occurrence of each element, in order
Dedupe(xs, seen) ==
  IF xs = <<>> THEN <<>>
  ELSE IF Head(xs) \in seen THEN Dedupe(Tail(xs), seen)
  ELSE <<Head(xs)>> \o Dedupe(Tail(xs), seen \cup {Head(xs)})

VARIATION_EXTENSIONS == <<".prw", ".PRW", ".tlpp", ".TLPP", ".prx", ".PRX">>

RECURSIVE WithExtensions(_, _)
WithExtensions(forms, i) ==
  IF i > Len(VARIATION_EXTENSIONS) THEN <<>>
  ELSE [k \in 1..Len(forms) |-> forms[k] \o VARIATION_EXTENSIONS[i]] \o WithExtensions(forms, i + 1)

\* normalizeRoutineName, for a routine that passed its validation
normalizeRoutineName(routine) ==
  LET original == Trim(routine)
      baseName == StripExtension(original)
      baseNameUpper == ToUpper(baseName)
      hasPrefix == StartsWith(baseNameUpper, "U_")
      withoutPrefix == IF hasPrefix THEN SubSeq(baseNameUpper, 3, Len(baseNameUpper)) ELSE baseNameUpper
      withPrefix == IF hasPrefix THEN baseNameUpper ELSE "U_" \o baseNameUpper
      forms == <<baseName, baseNameUpper, withPrefix, withoutPrefix>>
  IN [original |-> original, baseName |-> baseName, baseNameUpper |-> baseNameUpper,
      withPrefix |-> withPrefix, withoutPrefix |-> withoutPrefix,
      variations |-> Dedupe(forms \o WithExtensions(forms, 1), {})]

\* the validation of normalizeRoutineName: a routine it throws on
InvalidRoutine(routine) == routine = "" \/ Trim(routine) = ""

\* ------------------------------------------------------------ RoutineFinder

\* fs.access(path): the entry is listed in its directory, or is a directory
\* that can be listed
fileExists(path) ==
  LET cut == LastIndexOf("/", path)
      r == ReadDir(SubSeq(path, 1, cut - 1))
  IN ReadDir(path).ok \/ \E i \in 1..Len(r.entries) : r.entries[i].name = Basename(path)

\* findRoutineFile: "" stands for null
findRoutineFile(repoPath, normalized) ==
  LET vs == normalized.variations
      direct == {i \in 1..Len(vs) : fileExists(PathJoin(repoPath, vs[i]))}
      allFiles == getAllFilesRecursive(repoPath, SOURCE_EXTENSIONS, FIND_MAX_DEPTH, 0)
      deep == {k \in 1..Len(allFiles) :
                 \E i \in 1..Len(vs) : ToUpper(Basename(allFiles[k])) = ToUpper(vs[i])}
  IN IF direct # {} THEN PathJoin(repoPath, vs[CHOOSE i \in direct : \A j \in direct : i <= j])
     ELSE IF deep # {} THEN allFiles[CHOOSE k \in deep : \A j \in deep : k <= j]
     ELSE ""

\* -------------------------------------------------------- RepositoryLocator

envVarMap(env) ==
  CASE env = "HML" -> "REPO_HML"
    [] env = "PRD" -> "REPO_PRD"
    [] env \in {"TOTVS", "STANDARD", "TOTVS_STANDARD"} -> "REPO_TOTVS_STANDARD"
    [] OTHER -> "undefined"

\* a faulty locator: an unset path falls back to the HML one
getRepoPath_FallsBackToHml(env, penv) ==
  LET envVar == envVarMap(ToUpper(env))
      repoPath == IF envVar \in DOMAIN penv /\ penv[envVar] # "" THEN penv[envVar]
                  ELSE penv["REPO_HML"]
  IN [ok |-> repoPath # "", repoPath |-> repoPath, envVar |-> envVar]

\* getRepoPath under the process environment penv: ok = FALSE is the throw
getRepoPath(env, penv) ==
  LET envVar == envVarMap(ToUpper(env))
      repoPath == IF envVar \in DOMAIN penv THEN penv[envVar] ELSE ""
  IN [ok |-> repoPath # "", repoPath |-> repoPath, envVar |-> envVar]

detectEnvironment(routineName) ==
  IF StartsWith(routineName, "U_") THEN "HML" ELSE "STANDARD"

\* ------------------------------------------------------- TableUsageAnalyzer

WordBoundary == <<El("b", "", "1")>>

refPatterns(tableUpper) ==
  { WordBoundary \o Lit(tableUpper) \o WordBoundary,
    Lit("DBSELECTAREA") \o <<El("ws", "", "*"), El("lit", "(", "1"), El("ws", "", "*"), El("quote", "", "1")>>
      \o Lit(tableUpper) \o <<El("quote", "", "1")>>,
    <<El("lit", "(", "1"), El("quote", "", "1")>> \o Lit(tableUpper) \o <<El("quote", "", "1"), El("lit", ")", "1")>>,
    Lit(tableUpper) \o Lit("->") }

hasTableReference(contentUpper, tableUpper) ==
  \E pattern \in refPatterns(tableUpper) : RegexTest(pattern, contentUpper)

browseKeywords == {"MBROWSE", "FWMBROWSE", "FWMARKBROWSE", "MSSELECT"}

\* /RECLOCK\s*\(\s*["']?\w+["']?\s*,\s*\.T\./i with flag "T", the update form with "F"
RecLockPattern(flag) ==
  Lit("RECLOCK") \o
  <<El("ws", "", "*"), El("lit", "(", "1"), El("ws", "", "*"), El("quote", "", "?"), El("w", "", "+"),
    El("quote", "", "?"), El("ws", "", "*"), El("lit", ",", "1"), El("ws", "", "*")>> \o
  Lit("." \o flag \o ".")

\* a faulty chain: the CRUD test ahead of the browse test
UsageType_CrudFirst(hasBrowse, hasInsert, hasUpdate, hasDelete, contentUpper) ==
  IF hasInsert \/ hasUpdate \/ hasDelete THEN "CRUD"
  ELSE IF hasBrowse THEN "Browse"
  ELSE IF Includes(contentUpper, "TCQUERY") \/ Includes(contentUpper, "SELECT ") THEN "Query"
  ELSE IF Includes(contentUpper, "TMSPRINTER") \/ Includes(contentUpper, "TREPORT") THEN "Report"
  ELSE IF Includes(contentUpper, "WSSERVICE") \/ Includes(contentUpper, "WSRESTFUL") THEN "Integration"
  ELSE "Other"

\* the category chain of analyzeTableUsage
UsageType(hasBrowse, hasInsert, hasUpdate, hasDelete, contentUpper) ==
  IF hasBrowse THEN "Browse"
  ELSE IF hasInsert \/ hasUpdate \/ hasDelete THEN "CRUD"
  ELSE IF Includes(contentUpper, "TCQUERY") \/ Includes(contentUpper, "SELECT ") THEN "Query"
  ELSE IF Includes(contentUpper, "TMSPRINTER") \/ Includes(contentUpper, "TREPORT") THEN "Report"
  ELSE IF Includes(contentUpper, "WSSERVICE") \/ Includes(contentUpper, "WSRESTFUL") THEN "Integration"
  ELSE "Other"

\* the trailing run of word characters of s: the (\w+) group that ends a match
TrailingWord(s) ==
  LET stop == {i \in 1..Len(s) : ~IsWordChar(Ch(s, i))}
  IN SubSeq(s, (IF stop = {} THEN 0 ELSE SetMax(stop)) + 1, Len(s))

RECURSIVE MatchAllNames(_, _, _)
\* the (\w+) captures of content.matchAll(/<kw>\s+FUNCTION\s+(\w+)/gi), in order
MatchAllNames(pat, s, start) ==
  LET u == ToUpper(s)
      starts == {b \in start..Len(s) : MatchEnds(pat, u, b) # {}}
  IN IF starts = {} THEN <<>>
     ELSE LET b == SetMin(starts)
              e == SetMax(MatchEnds(pat, u, b))
          IN <<TrailingWord(SubSeq(s, b + 1, e))>> \o MatchAllNames(pat, s, Resume(b, e))

FunctionPattern(kw) ==
  Lit(kw) \o <<El("ws", "", "+")>> \o Lit("FUNCTION") \o <<El("ws", "", "+"), El("w", "", "+")>>

analyzeTableUsage(content, tableUpper) ==
  LET contentUpper == ToUpper(content)
      references == CountMatches(WordBoundary \o Lit(tableUpper) \o WordBoundary, contentUpper, 0)
      hasBrowse == \E kw \in browseKeywords : Includes(contentUpper, kw)
      hasInsert == RegexTest(RecLockPattern("T"), contentUpper) \/ Includes(contentUpper, "DBAPPEND")
      hasUpdate == RegexTest(RecLockPattern("F"), contentUpper)
      hasDelete == Includes(contentUpper, "DBDELETE")
                   \/ RegexTest(Lit("RECLOCK") \o <<El("any", "", "*")>> \o Lit("DBDELETE"), contentUpper)
  IN [usageType |-> UsageType(hasBrowse, hasInsert, hasUpdate, hasDelete, contentUpper),
      references |-> references,
      hasBrowse |-> hasBrowse, hasInsert |-> hasInsert,
      hasUpdate |-> hasUpdate, hasDelete |-> hasDelete,
      userFunctions |-> Dedupe(MatchAllNames(FunctionPattern("USER"), content, 0), {}),
      staticFunctions |-> Dedupe(MatchAllNames(FunctionPattern("STATIC"), content, 0), {})]

typeOrder(usageType) ==
  CASE usageType = "Browse" -> 1
    [] usageType = "CRUD" -> 2
    [] usageType = "Query" -> 3
    [] usageType = "Report" -> 4
    [] usageType = "Integration" -> 5
    [] usageType = "Other" -> 6
    [] OTHER -> 99

\* a faulty comparator: the occurrence counts compared the wrong way round
CompareRows_ReferencesAscending(a, b) ==
  IF typeOrder(a.usageType) # typeOrder(b.usageType)
  THEN typeOrder(a.usageType) - typeOrder(b.usageType)
  ELSE a.references - b.references

\* the comparator of results.sort: negative when a sorts before b
CompareRows(a, b) ==
  IF typeOrder(a.usageType) # typeOrder(b.usageType)
  THEN typeOrder(a.usageType) - typeOrder(b.usageType)
  ELSE b.references - a.references

RECURSIVE InsertRow(_, _)
InsertRow(sorted, r) ==
  IF sorted = <<>> THEN <<r>>
  ELSE IF CompareRows(r, Head(sorted)) < 0 THEN <<r>> \o sorted
  ELSE <<Head(sorted)>> \o InsertRow(Tail(sorted), r)

RECURSIVE SortRows(_)
\* Array.prototype.sort with CompareRows: a stable sort
SortRows(rows) ==
  IF rows = <<>> THEN <<>>
  ELSE InsertRow(SortRows(SubSeq(rows, 1, Len(rows) - 1)), rows[Len(rows)])

\* --------------------------------------------------------------- requests

MaxRequests == 3
MaxResultsBound == 3

Procs == {"p1", "p2"}
Roots == {"/hml", "/prd", "/std", "/std0"}
VendorRoots == {"/std", "/std0"}
RoutineInputs == {"MATA010", "u_mata010", "ZCAD001", "QQQAX"}
Tables == {"PD3"}
\* values of routine that fail the validation: empty, blank, and the text of a
\* number
UnvalidatedInputs == {"", "  ", "0", "5"}
\* routines only the wide calls ask for: a file that cannot be read, and a
\* name that is the prefix alone
ExtraRoutines == {"LOCKED", "U_"}
AllRoutines == RoutineInputs \cup UnvalidatedInputs \cup ExtraRoutines

\* the requests the stdin handler receives
LocateRequests ==
  { [action |-> "getSourceCode", routine |-> r, env |-> e, repoPath |-> rp, table |-> "",
     includeStandard |-> FALSE, maxResults |-> 0, routineType |-> "string"] :
      r \in RoutineInputs, e \in {"AUTO", "HML"}, rp \in {"", "/prd"} }
SearchRequests ==
  { [action |-> "searchByTable", routine |-> "", env |-> e, repoPath |-> "", table |-> t,
     includeStandard |-> inc, maxResults |-> m, routineType |-> "undefined"] :
      e \in {"HML", "PRD"}, t \in Tables, inc \in BOOLEAN, m \in 0..MaxResultsBound }
Requests == LocateRequests \cup SearchRequests

\* ------------------------------------------------- RoutineClassifier, rules

\* the criteria with the naming pattern consulted before the file path
Criteria_PatternBeforeFile(routineName, hasFile, discovered) ==
  LET upperName == UpperName(routineName)
      answer(v) == [key |-> upperName, hit |-> FALSE, inspect |-> FALSE, result |-> v]
  IN IF HasCustomPrefix(routineName) THEN answer(FALSE)
     ELSE IF matchesKnownPrefix(upperName, discovered) THEN answer(TRUE)
     ELSE IF RegexTestAnchored(NamePattern, upperName) THEN answer(TRUE)
     ELSE IF hasFile THEN [key |-> upperName, hit |-> FALSE, inspect |-> TRUE, result |-> FALSE]
     ELSE answer(FALSE)

\* the criteria of isStandardRoutine past the cache check, up to the first
\* await: inspect = criterion 3 applies and analyzeFileContent is awaited
Criteria(routineName, hasFile, discovered) ==
  LET upperName == UpperName(routineName)
      answer(v) == [key |-> upperName, hit |-> FALSE, inspect |-> FALSE, result |-> v]
  IN IF HasCustomPrefix(routineName) THEN answer(FALSE)
     ELSE IF matchesKnownPrefix(upperName, discovered) THEN answer(TRUE)
     ELSE IF hasFile THEN [key |-> upperName, hit |-> FALSE, inspect |-> TRUE, result |-> FALSE]
     ELSE IF RegexTestAnchored(NamePattern, upperName) THEN answer(TRUE)
     ELSE answer(FALSE)

\* ---------------------------------------------------------------- tables
\* The values of the operators above at the arguments the requests reach,
\* computed once.

Range(f) == {f[i] : i \in DOMAIN f}

Index ==
  [root \in Roots |-> [d \in {FIND_MAX_DEPTH, SEARCH_MAX_DEPTH} |->
     getAllFilesRecursive(root, SOURCE_EXTENSIONS, d, 0)]]
IndexedFiles == UNION {Range(Index[root][SEARCH_MAX_DEPTH]) : root \in Roots}
Normalized == [r \in AllRoutines |-> normalizeRoutineName(r)]
Found == [root \in Roots |-> [r \in AllRoutines |-> findRoutineFile(root, Normalized[r])]]
ClassifiedNames ==
  {Normalized[r].baseNameUpper : r \in AllRoutines}
    \cup {BasenameNoExt(f) : f \in IndexedFiles}
Discoverable ==
  {DiscoveredPrefixOf(BasenameNoExt(f)) :
     f \in UNION {Range(Index[root][DEFAULT_MAX_DEPTH]) : root \in VendorRoots}} \ {""}
\* the values discoveredPrefixes can take
DiscoveredSets == {d \cap Discoverable : d \in SUBSET Discoverable}
CriteriaOf ==
  [n \in ClassifiedNames |-> [d \in DiscoveredSets |-> [h \in BOOLEAN |-> Criteria(n, h, d)]]]
FileFacts ==
  [f \in IndexedFiles |->
     [ok |-> ReadFile(f).ok,
      fileName |-> BasenameNoExt(f),
      standard |-> analyzeFileContent(f),
      prefix |-> DiscoveredPrefixOf(BasenameNoExt(f)),
      ref |-> [t \in Tables |-> ReadFile(f).ok /\ hasTableReference(ToUpper(ReadFile(f).content), ToUpper(t))],
      usage |-> [t \in Tables |-> analyzeTableUsage(ReadFile(f).content, ToUpper(t))]]]

\* ------------------------------------------------------------------ state

VARIABLES
  standardPrefixCache,  \* Map<string, boolean>: key -> decision
  discoveredPrefixes,   \* Set<string>
  processEnv,           \* process.env: the REPO_* settings
  st,                   \* per stdin-handler invocation: its request and where it stands
  lastCall,             \* the isStandardRoutine call that returned in the last step
  decided,              \* key -> the first decision isStandardRoutine returned for it
  discoveryStarts,      \* how many times discoverStandardPrefixes was called
  started,              \* requests started so far
  fileText,             \* text under analysis (the text specifications)
  analysis              \* what the table-usage analyzer made of fileText

procVars == <<standardPrefixCache, discoveredPrefixes, processEnv, st, lastCall, decided,
              discoveryStarts, started>>
textVars == <<fileText, analysis>>
vars == <<standardPrefixCache, discoveredPrefixes, processEnv, st, lastCall, decided,
          discoveryStarts, started, fileText, analysis>>

NoParams == [action |-> "", routine |-> "", env |-> "", repoPath |-> "", table |-> "",
             includeStandard |-> FALSE, maxResults |-> 0, routineType |-> "undefined"]
NoResp == [tag |-> "none"]
Idle == [pc |-> "idle", params |-> NoParams, finalEnv |-> "", finalRepoPath |-> "",
         isStandard |-> FALSE, files |-> <<>>, i |-> 0, results |-> <<>>, known |-> FALSE,
         fsRead |-> FALSE, resp |-> NoResp]
NoCall == [name |-> "", none |-> TRUE]
NoAnalysis == [none |-> TRUE]

ProcInit ==
  /\ standardPrefixCache = <<>>
  /\ discoveredPrefixes = {}
  /\ processEnv \in { [REPO_HML |-> "/hml", REPO_PRD |-> "/prd", REPO_TOTVS_STANDARD |-> std] :
                        std \in VendorRoots \cup {""} }
  /\ st = [p \in Procs |-> Idle]
  /\ lastCall = NoCall
  /\ decided = <<>>
  /\ discoveryStarts = 0
  /\ started = 0

Init == ProcInit /\ fileText = "" /\ analysis = NoAnalysis

\* Map.prototype.set
MapSet(m, k, v) == [x \in DOMAIN m \cup {k} |-> IF x = k THEN v ELSE m[x]]

\* the first decision returned for a key stays on record
Record(d, k, v) == IF k \in DOMAIN d THEN d ELSE MapSet(d, k, v)

\* a faulty classifier: the cache is never consulted
isStandardRoutine_NoCacheCheck(routineName, hasFile, cache, discovered) ==
  CriteriaOf[routineName][discovered][hasFile]

\* a faulty classifier: the cache is consulted only when a file path is given
isStandardRoutine_CacheWithFileOnly(routineName, hasFile, cache, discovered) ==
  LET upperName == UpperName(routineName)
  IN IF hasFile /\ upperName \in DOMAIN cache
     THEN [key |-> upperName, hit |-> TRUE, inspect |-> FALSE, result |-> cache[upperName]]
     ELSE CriteriaOf[routineName][discovered][hasFile]

\* isStandardRoutine up to its first await: hit = answered from the cache,
\* inspect = it goes on to await analyzeFileContent
isStandardRoutine(routineName, hasFile, cache, discovered) ==
  LET upperName == UpperName(routineName)
  IN IF upperName \in DOMAIN cache
     THEN [key |-> upperName, hit |-> TRUE, inspect |-> FALSE, result |-> cache[upperName]]
     ELSE CriteriaOf[routineName][discovered][hasFile]

\* standardPrefixCache.set(upperName, isStandard) at the end of a call that
\* did not return from the cache
CacheAfter(cache, c) == IF c.hit THEN cache ELSE MapSet(cache, c.key, c.result)

\* a call isStandardRoutine(name, filePath) that has returned; filePath = ""
\* when the caller passed none
CallRecord(name, filePath, key, result, known, read) ==
  [name |-> name, none |-> FALSE, hasFile |-> filePath # "", filePath |-> filePath,
   key |-> key, result |-> result, known |-> known, read |-> read]

\* ----------------------------------------------------------- search rows

\* the row executeSearchByTable pushes for a file, a = its analyzeTableUsage
Row(filePath, fileName, a) ==
  [routine |-> fileName, file |-> Basename(filePath), filePath |-> filePath,
   usageType |-> a.usageType, references |-> a.references,
   hasBrowse |-> a.hasBrowse, hasInsert |-> a.hasInsert,
   hasUpdate |-> a.hasUpdate, hasDelete |-> a.hasDelete,
   userFunctions |-> a.userFunctions, staticFunctions |-> a.staticFunctions]

CountRows(rows, types) == Cardinality({k \in 1..Len(rows) : rows[k].usageType \in types})

\* a faulty summary: otherRoutines counts the rows of type Other only
SearchResponse_OtherOnly(s, sorted) ==
  [tag |-> "searchResult", ok |-> TRUE, table |-> s.params.table,
   totalFound |-> Len(sorted), results |-> sorted,
   summary |-> [browseRoutines |-> CountRows(sorted, {"Browse"}),
                crudRoutines |-> CountRows(sorted, {"CRUD"}),
                reportRoutines |-> CountRows(sorted, {"Report"}),
                otherRoutines |-> CountRows(sorted, {"Other"})],
   metadata |-> [table |-> s.params.table, env |-> s.finalEnv, repoPath |-> s.finalRepoPath,
                 includeStandard |-> s.params.includeStandard,
                 maxResults |-> s.params.maxResults]]

\* what execute returns for searchByTable once the loop is over
SearchResponse(s, sorted) ==
  [tag |-> "searchResult", ok |-> TRUE, table |-> s.params.table,
   totalFound |-> Len(sorted), results |-> sorted,
   summary |-> [browseRoutines |-> CountRows(sorted, {"Browse"}),
                crudRoutines |-> CountRows(sorted, {"CRUD"}),
                reportRoutines |-> CountRows(sorted, {"Report"}),
                otherRoutines |->
                  Cardinality({k \in 1..Len(sorted) :
                                 sorted[k].usageType \notin {"Browse", "CRUD", "Report"}})],
   metadata |-> [table |-> s.params.table, env |-> s.finalEnv, repoPath |-> s.finalRepoPath,
                 includeStandard |-> s.params.includeStandard,
                 maxResults |-> s.params.maxResults]]

\* the loop is left: sort, summarise, return
Finished(s) == [s EXCEPT !.pc = "done", !.resp = SearchResponse(s, SortRows(s.results))]

\* continue: on to the next file of allFiles
ScanNext(s) == IF s.i >= Len(s.files) THEN Finished(s) ELSE [s EXCEPT !.i = s.i + 1]

\* a faulty catch: the loop is left at the first file that cannot be read
ReadFailed_LeavesLoop(s) == Finished(s)

\* readFile threw: the catch of the loop body logs, the loop goes on
ReadFailed(s) == ScanNext(s)

\* results.push(row) has run: break at the cap, else on to the next file
Pushed(s) == IF Len(s.results) >= s.params.maxResults THEN Finished(s) ELSE ScanNext(s)

\* the loop body past the classification of files[i]
AfterClassify(s, isStandard, row) ==
  IF isStandard /\ ~s.params.includeStandard THEN ScanNext(s)
  ELSE Pushed([s EXCEPT !.results = Append(s.results, row)])

\* an early return of execute with ok: false
Failed(s, response) == [s EXCEPT !.pc = "done", !.resp = response]

\* !routine: undefined, the empty string and the number 0 are falsy
RoutineMissing(params) ==
  \/ params.routineType = "undefined"
  \/ params.routineType = "string" /\ params.routine = ""
  \/ params.routineType = "number" /\ params.routine = "0"

\* a faulty validation: normalizeRoutineName never throws
NormalizeThrows_Never(params) == FALSE

\* the two throws of normalizeRoutineName, for a routine that is not falsy
NormalizeThrows(params) == params.routineType # "string" \/ InvalidRoutine(params.routine)

\* ------------------------------------------------------------- responses
\* A message is the record of the values its template interpolates.

MissingTableResponse ==
  [tag |-> "missingTable", ok |-> FALSE,
   message |-> [text |-> "Parametro table e obrigatorio"],
   example |-> [action |-> "searchByTable", table |-> "PD3", env |-> "HML"]]

MissingRoutineResponse ==
  [tag |-> "missingRoutine", ok |-> FALSE,
   message |-> [text |-> "Parametro routine e obrigatorio"],
   example |-> [routine |-> "PCMCTF43", env |-> "HML", action |-> "renderReportMarkdown"]]

\* the outer catch of execute
UnexpectedResponse(errorMessage) ==
  [tag |-> "unexpected", ok |-> FALSE,
   message |-> [text |-> "Erro inesperado", error |-> errorMessage],
   stack |-> errorMessage]

\* the message of the Error getRepoPath throws
RepoPathError(env, repo) ==
  [text |-> "Variavel de ambiente nao configurada", envVar |-> repo.envVar, env |-> env]

SearchNotConfigured(finalEnv, repo) ==
  [tag |-> "notConfigured", ok |-> FALSE, env |-> finalEnv,
   message |-> [text |-> "Repositorio nao configurado", env |-> finalEnv,
                error |-> RepoPathError(finalEnv, repo)]]

StandardNotConfigured(params, normalized, repo) ==
  [tag |-> "notConfigured", ok |-> FALSE, env |-> "STANDARD", routine |-> params.routine,
   message |-> [text |-> "Repositorio de rotinas padrao nao configurado",
                env |-> "STANDARD", configure |-> "REPO_TOTVS_STANDARD",
                error |-> RepoPathError("STANDARD", repo)],
   debug |-> [normalized |-> normalized, isStandard |-> TRUE,
              missingEnvVar |-> "REPO_TOTVS_STANDARD"]]

CustomNotConfigured(params, finalEnv, normalized, repo) ==
  [tag |-> "notConfigured", ok |-> FALSE, env |-> finalEnv, routine |-> params.routine,
   message |-> [text |-> "Repositorio nao configurado", env |-> finalEnv,
                error |-> RepoPathError(finalEnv, repo)],
   debug |-> [normalized |-> normalized, isStandard |-> FALSE]]

\* variations.slice(0, n)
Slice(xs, n) == SubSeq(xs, 1, IF Len(xs) < n THEN Len(xs) ELSE n)

NotFoundResponse(s, normalized) ==
  [tag |-> "notFound", ok |-> FALSE, env |-> s.finalEnv, repoPath |-> s.finalRepoPath,
   routine |-> s.params.routine,
   message |-> [text |-> "Rotina nao encontrada", routine |-> s.params.routine,
                env |-> s.finalEnv, searched |-> s.finalRepoPath,
                listed |-> Slice(normalized.variations, LISTED_VARIATIONS),
                more |-> IF Len(normalized.variations) > LISTED_VARIATIONS
                         THEN Len(normalized.variations) - LISTED_VARIATIONS ELSE 0],
   debug |-> [normalized |-> normalized, isStandard |-> s.isStandard,
              searchedPath |-> s.finalRepoPath,
              searchedVariations |-> normalized.variations]]

InvalidActionResponse(action) ==
  [tag |-> "invalidAction", ok |-> FALSE,
   message |-> [text |-> "Acao invalida", action |-> action]]

executeGetSourceCode(filePath, raw) ==
  IF raw.ok THEN [ok |-> TRUE, path |-> filePath, sourceCode |-> raw.content]
  ELSE [ok |-> FALSE, message |-> [text |-> "Erro ao ler codigo-fonte"]]

\* executeStatus: git answers or fails; the payload is cut down to the file
executeStatus(filePath, repoPath, gitOk) ==
  IF gitOk THEN [ok |-> TRUE, file |-> SubSeq(filePath, Len(repoPath) + 2, Len(filePath))]
  ELSE [ok |-> FALSE, message |-> [text |-> "Erro ao obter status git"]]

\* executeAnalyzeRoutine: the payload is cut down to the line count
executeAnalyzeRoutine(raw) ==
  IF raw.ok
  THEN [ok |-> TRUE,
        analysis |-> [totalLines |-> 1 + Cardinality({k \in 1..Len(raw.content) :
                                                       Ch(raw.content, k) = "\n"})]]
  ELSE [ok |-> FALSE, message |-> [text |-> "Erro ao analisar rotina"]]

\* executeRenderReportMarkdown with includeSource off: the report of the
\* analysis, or the failed analysis as it is
executeRenderReportMarkdown(filePath, raw) ==
  IF raw.ok
  THEN [ok |-> TRUE, markdown |-> executeAnalyzeRoutine(raw).analysis,
        outputPath |-> StripExtension(filePath) \o "_report.md"]
  ELSE executeAnalyzeRoutine(raw)

\* the switch over the four actions that work on the file
ActionResult(action, filePath, repoPath, raw, gitOk) ==
  CASE action = "status" -> executeStatus(filePath, repoPath, gitOk)
    [] action = "analyzeRoutine" -> executeAnalyzeRoutine(raw)
    [] action = "renderReportMarkdown" -> executeRenderReportMarkdown(filePath, raw)
    [] OTHER -> executeGetSourceCode(filePath, raw)

FileActions == {"status", "analyzeRoutine", "renderReportMarkdown", "getSourceCode"}

\* a faulty return: the result of the action as it is
ActionResponse_ResultOnly(s, filePath, result) == [tag |-> "actionResult"] @@ result

\* { ...result, metadata }
ActionResponse(s, filePath, result) ==
  [tag |-> "actionResult",
   metadata |-> [routine |-> s.params.routine, env |-> s.finalEnv,
                 repoPath |-> s.finalRepoPath, filePath |-> filePath,
                 isStandard |-> s.isStandard, action |-> s.params.action]] @@ result

\* a faulty resolution: the manual repoPath is not looked at
SearchRoot_TokenOnly(params, penv) ==
  LET finalEnv == IF params.env = "AUTO" THEN "HML" ELSE params.env
  IN [env |-> finalEnv] @@ getRepoPath(finalEnv, penv)

\* the repository of a searchByTable call: the manual override, or the
\* configured path of the environment (AUTO stands for HML)
SearchRoot(params, penv) ==
  IF params.repoPath # ""
  THEN [env |-> "MANUAL", ok |-> TRUE, repoPath |-> params.repoPath, envVar |-> ""]
  ELSE LET finalEnv == IF params.env = "AUTO" THEN "HML" ELSE params.env
       IN [env |-> finalEnv] @@ getRepoPath(finalEnv, penv)

\* ---------------------------------------------------------------- actions
\* An action is the code a handler runs between two awaits of file I/O.

\* handler p moves to s; call = the isStandardRoutine call that returned in
\* the step (NoCall if none)
Apply(p, s, cache, call) ==
  /\ st' = [st EXCEPT ![p] = s]
  /\ standardPrefixCache' = cache
  /\ lastCall' = call
  /\ decided' = IF call.none THEN decided ELSE Record(decided, call.key, call.result)

\* stdin delivers a searchByTable call out of calls: execute up to the first
\* readFile of the loop
StartSearchOf(p, calls) ==
  /\ st[p].pc = "idle"
  /\ started < MaxRequests
  /\ \E params \in calls :
     \E repo \in {SearchRoot(params, processEnv)} :
     \E base \in {[Idle EXCEPT !.params = params]} :
       IF params.table = ""
       THEN Apply(p, Failed(base, MissingTableResponse), standardPrefixCache, NoCall)
       ELSE IF ~repo.ok
       THEN Apply(p, Failed([base EXCEPT !.finalEnv = repo.env],
                            SearchNotConfigured(repo.env, repo)),
                  standardPrefixCache, NoCall)
       ELSE \E scan \in {[base EXCEPT !.pc = "scan", !.finalEnv = repo.env,
                                      !.finalRepoPath = repo.repoPath, !.i = 1,
                                      !.fsRead = TRUE,
                                      !.files = Index[repo.repoPath][SEARCH_MAX_DEPTH]]} :
              Apply(p, IF scan.files = <<>> THEN Finished(scan) ELSE scan,
                    standardPrefixCache, NoCall)
  /\ started' = started + 1
  /\ UNCHANGED <<discoveredPrefixes, processEnv, discoveryStarts, fileText, analysis>>

StartSearch(p) == StartSearchOf(p, SearchRequests)

\* stdin delivers a call out of calls that is no searchByTable: execute up to
\* the first file I/O
StartLocateOf(p, calls) ==
  /\ st[p].pc = "idle"
  /\ started < MaxRequests
  /\ \E params \in calls :
     \E base \in {[Idle EXCEPT !.params = params]} :
       IF RoutineMissing(params)
       THEN Apply(p, Failed(base, MissingRoutineResponse), standardPrefixCache, NoCall)
            /\ UNCHANGED discoveryStarts
       ELSE IF NormalizeThrows(params)
       THEN Apply(p, Failed(base, UnexpectedResponse("Nome da rotina invalido")),
                  standardPrefixCache, NoCall)
            /\ UNCHANGED discoveryStarts
       ELSE IF params.repoPath # ""
       THEN Apply(p, [base EXCEPT !.pc = "find", !.finalEnv = "MANUAL",
                                  !.finalRepoPath = params.repoPath],
                  standardPrefixCache, NoCall)
            /\ UNCHANGED discoveryStarts
       ELSE \E normalized \in {Normalized[params.routine]} :
            \E name \in {normalized.baseNameUpper} :
            \E c \in {isStandardRoutine(name, FALSE, standardPrefixCache, discoveredPrefixes)} :
            \E finalEnv \in {IF c.result THEN "STANDARD"
                             ELSE IF params.env = "AUTO" THEN detectEnvironment(name)
                             ELSE params.env} :
            \E repo \in {getRepoPath(finalEnv, processEnv)} :
            \E discover \in {c.result /\ repo.ok /\ Cardinality(discoveredPrefixes) = 0} :
            \E located \in {[base EXCEPT !.finalEnv = finalEnv, !.finalRepoPath = repo.repoPath,
                                         !.isStandard = c.result, !.fsRead = discover]} :
            \E files \in {IF discover THEN Index[repo.repoPath][DEFAULT_MAX_DEPTH] ELSE <<>>} :
              /\ Apply(p, IF ~repo.ok
                          THEN Failed(located,
                                      IF c.result
                                      THEN StandardNotConfigured(params, normalized, repo)
                                      ELSE CustomNotConfigured(params, finalEnv, normalized, repo))
                          ELSE IF files # <<>>
                          THEN [located EXCEPT !.pc = "discover", !.files = files, !.i = 1]
                          ELSE [located EXCEPT !.pc = "find"],
                       CacheAfter(standardPrefixCache, c),
                       CallRecord(name, "", c.key, c.result, c.key \in DOMAIN decided, FALSE))
              /\ discoveryStarts' = IF discover THEN discoveryStarts + 1 ELSE discoveryStarts
  /\ started' = started + 1
  /\ UNCHANGED <<discoveredPrefixes, processEnv, fileText, analysis>>

StartLocate(p) == StartLocateOf(p, LocateRequests)

\* discoverStandardPrefixes: one turn of the loop over the vendor files
DiscoverFile(p) ==
  /\ st[p].pc = "discover"
  /\ \E facts \in {FileFacts[st[p].files[st[p].i]]} :
       discoveredPrefixes' = IF facts.standard /\ facts.prefix # ""
                             THEN discoveredPrefixes \cup {facts.prefix}
                             ELSE discoveredPrefixes
  /\ st' = [st EXCEPT ![p] = IF st[p].i >= Len(st[p].files)
                             THEN [st[p] EXCEPT !.pc = "find", !.files = <<>>, !.i = 0]
                             ELSE [st[p] EXCEPT !.i = st[p].i + 1]]
  /\ lastCall' = NoCall
  /\ UNCHANGED <<standardPrefixCache, processEnv, decided, discoveryStarts, started,
                 fileText, analysis>>

\* findRoutineFile, the requested action and the metadata
Find(p) ==
  /\ st[p].pc = "find"
  /\ \E s \in {[st[p] EXCEPT !.fsRead = TRUE]} :
     \E filePath \in {Found[s.finalRepoPath][s.params.routine]} :
     \E gitOk \in (IF s.params.action = "status" /\ filePath # "" THEN BOOLEAN ELSE {TRUE}) :
       st' = [st EXCEPT ![p] =
                IF filePath = ""
                THEN Failed(s, NotFoundResponse(s, Normalized[s.params.routine]))
                ELSE IF s.params.action \in FileActions
                THEN [s EXCEPT !.pc = "done",
                               !.resp = ActionResponse(s, filePath,
                                          ActionResult(s.params.action, filePath,
                                                       s.finalRepoPath, ReadFile(filePath),
                                                       gitOk))]
                ELSE Failed(s, InvalidActionResponse(s.params.action))]
  /\ lastCall' = NoCall
  /\ UNCHANGED <<standardPrefixCache, discoveredPrefixes, processEnv, decided, discoveryStarts,
                 started, fileText, analysis>>

\* executeSearchByTable: files[i] is read, the loop runs on to the next await
ScanFile(p) ==
  /\ st[p].pc = "scan"
  /\ \E s \in {st[p]} :
     \E table \in {ToUpper(s.params.table)} :
     \E facts \in {FileFacts[s.files[s.i]]} :
       IF ~facts.ok
       THEN Apply(p, ReadFailed(s), standardPrefixCache, NoCall)
       ELSE IF ~facts.ref[table]
       THEN Apply(p, ScanNext(s), standardPrefixCache, NoCall)
       ELSE \E c \in {isStandardRoutine(facts.fileName, TRUE, standardPrefixCache,
                                        discoveredPrefixes)} :
            \E known \in {c.key \in DOMAIN decided} :
              IF c.inspect
              THEN Apply(p, [s EXCEPT !.pc = "inspect", !.known = known],
                         standardPrefixCache, NoCall)
              ELSE Apply(p, AfterClassify(s, c.result,
                                          Row(s.files[s.i], facts.fileName, facts.usage[table])),
                         CacheAfter(standardPrefixCache, c),
                         CallRecord(facts.fileName, s.files[s.i], c.key, c.result, known, FALSE))
  /\ UNCHANGED <<discoveredPrefixes, processEnv, discoveryStarts, started, fileText, analysis>>

\* analyzeFileContent(files[i]) has resolved: isStandardRoutine stores and
\* returns its answer, the loop runs on to the next await
Inspect(p) ==
  /\ st[p].pc = "inspect"
  /\ \E s \in {st[p]} :
     \E table \in {ToUpper(s.params.table)} :
     \E facts \in {FileFacts[s.files[s.i]]} :
     \E upperName \in {UpperName(facts.fileName)} :
       Apply(p, AfterClassify([s EXCEPT !.pc = "scan", !.known = FALSE], facts.standard,
                              Row(s.files[s.i], facts.fileName, facts.usage[table])),
             MapSet(standardPrefixCache, upperName, facts.standard),
             CallRecord(facts.fileName, s.files[s.i], upperName, facts.standard, s.known, TRUE))
  /\ UNCHANGED <<discoveredPrefixes, processEnv, discoveryStarts, started, fileText, analysis>>

\* the response is written to stdout
Respond(p) ==
  /\ st[p].pc = "done"
  /\ st' = [st EXCEPT ![p] = Idle]
  /\ lastCall' = NoCall
  /\ UNCHANGED <<standardPrefixCache, discoveredPrefixes, processEnv, decided, discoveryStarts,
                 started, fileText, analysis>>

Step(p) == DiscoverFile(p) \/ Find(p) \/ ScanFile(p) \/ Inspect(p) \/ Respond(p)

\* the server: a data event starts a handler while others await file I/O
Next == \E p \in Procs : StartSearch(p) \/ StartLocate(p) \/ Step(p)

Spec == Init /\ [][Next]_vars

\* requests one after another: the next one arrives when the last has answered
AllIdle == \A q \in Procs : st[q].pc = "idle"

NextSeq == \E p \in Procs : (AllIdle /\ (StartSearch(p) \/ StartLocate(p))) \/ Step(p)

SpecSeq == Init /\ [][NextSeq]_vars

\* the same with the client keeping, in order, every response it is sent
Received(p) ==
  /\ st[p].pc = "done"
  /\ st' = [st EXCEPT ![p] = Idle]
  /\ lastCall' = NoCall
  /\ analysis' = [none |-> FALSE,
                  log |-> Append(IF analysis.none THEN <<>> ELSE analysis.log,
                                 [params |-> st[p].params, response |-> st[p].resp])]
  /\ UNCHANGED <<standardPrefixCache, discoveredPrefixes, processEnv, decided, discoveryStarts,
                 started, fileText>>

\* the requests of a client that repeats itself: searches cut after one row
\* or after MaxResultsBound rows, locates by the AUTO token with and without
\* an explicit root
RepeatSearches == {r \in SearchRequests : r.maxResults \in {1, MaxResultsBound}}
RepeatLocates == {r \in LocateRequests : r.env = "AUTO"}

NextRepeat ==
  \E p \in Procs :
    \/ AllIdle /\ (StartSearchOf(p, RepeatSearches) \/ StartLocateOf(p, RepeatLocates))
    \/ DiscoverFile(p) \/ Find(p) \/ ScanFile(p) \/ Inspect(p) \/ Received(p)

SpecRepeat == Init /\ [][NextRepeat]_vars

\* ------------------------------------------------------ the tool's inputs
\* The server under every shape of call: each environment token, a manual
\* repoPath on either kind of call, a missing table, routines that fail the
\* validation, an action the switch does not know, and settings left unset.

EnvTokens == {"AUTO", "HML", "PRD", "TOTVS", "STANDARD"}

LocateCalls ==
  { [action |-> a, routine |-> r, env |-> e, repoPath |-> rp, table |-> "",
     includeStandard |-> FALSE, maxResults |-> 0, routineType |-> "string"] :
      a \in {"getSourceCode", "compile"}, r \in RoutineInputs \cup {"", "  "},
      e \in EnvTokens, rp \in {"", "/prd"} }
  \cup
  { [action |-> "getSourceCode", routine |-> r[2], env |-> "HML", repoPath |-> rp, table |-> "",
     includeStandard |-> FALSE, maxResults |-> 0, routineType |-> r[1]] :
      r \in {<<"undefined", "">>, <<"number", "0">>, <<"number", "5">>}, rp \in {"", "/prd"} }
  \cup
  { [action |-> "getSourceCode", routine |-> r, env |-> e, repoPath |-> rp, table |-> "",
     includeStandard |-> FALSE, maxResults |-> 0, routineType |-> "string"] :
      r \in ExtraRoutines, e \in {"AUTO", "PRD"}, rp \in {"", "/prd"} }
  \cup
  { [action |-> a, routine |-> "ZCAD001", env |-> "HML", repoPath |-> rp, table |-> "",
     includeStandard |-> FALSE, maxResults |-> 0, routineType |-> "string"] :
      a \in FileActions, rp \in {"", "/prd"} }

SearchCalls ==
  { [action |-> "searchByTable", routine |-> "", env |-> e, repoPath |-> rp, table |-> t,
     includeStandard |-> inc, maxResults |-> MaxResultsBound, routineType |-> "undefined"] :
      e \in EnvTokens, rp \in {"", "/hml"}, t \in Tables \cup {""}, inc \in BOOLEAN }

Settings ==
  { [REPO_HML |-> "/hml", REPO_PRD |-> "/prd", REPO_TOTVS_STANDARD |-> "/std"],
    [REPO_HML |-> "", REPO_PRD |-> "/prd", REPO_TOTVS_STANDARD |-> "/std"],
    [REPO_HML |-> "/hml", REPO_PRD |-> "", REPO_TOTVS_STANDARD |-> "/std"],
    [REPO_HML |-> "/hml", REPO_PRD |-> "/prd", REPO_TOTVS_STANDARD |-> ""] }

InitCalls ==
  /\ standardPrefixCache = <<>>
  /\ discoveredPrefixes = {}
  /\ processEnv \in Settings
  /\ st = [p \in Procs |-> Idle]
  /\ lastCall = NoCall
  /\ decided = <<>>
  /\ discoveryStarts = 0
  /\ started = 0
  /\ fileText = ""
  /\ analysis = NoAnalysis

NextCalls ==
  \E p \in Procs :
    (AllIdle /\ (StartSearchOf(p, SearchCalls) \/ StartLocateOf(p, LocateCalls))) \/ Step(p)

SpecCalls == InitCalls /\ [][NextCalls]_vars

\* ------------------------------------------------------ text analysis
\* The table-usage analyzer on its own: a text is drawn from short fragments
\* and analysed as the loop of executeSearchByTable analyses a file it read.

MaxFragments == 3

RefFragments == {"PD3", "pd3", "A", "0", "_", "->", "(\"", "\")", " ", "DbSelectArea"}
UsageFragments == {"mBrowse", "RecLock(x,.T.)", "RecLock(x,.F.)", "DbDelete", "TCQUERY",
                   "select ", "TReport", "WsRestful"}

RECURSIVE Concat(_)
Concat(parts) == IF parts = <<>> THEN "" ELSE Head(parts) \o Concat(Tail(parts))

Texts(fragments) ==
  {Concat(parts) : parts \in UNION {[1..n -> fragments] : n \in 0..MaxFragments}}

\* hasTableReference and analyzeTableUsage on the text, for table PD3
Analyze ==
  /\ analysis = NoAnalysis
  /\ analysis' = [none |-> FALSE, table |-> "PD3",
                  ref |-> hasTableReference(ToUpper(fileText), "PD3"),
                  usage |-> analyzeTableUsage(fileText, "PD3")]
  /\ UNCHANGED <<standardPrefixCache, discoveredPrefixes, processEnv, st, lastCall, decided,
                 discoveryStarts, started, fileText>>

InitRef ==
  /\ ProcInit /\ processEnv.REPO_TOTVS_STANDARD = ""
  /\ fileText \in Texts(RefFragments)
  /\ analysis = NoAnalysis

InitUsage ==
  /\ ProcInit /\ processEnv.REPO_TOTVS_STANDARD = ""
  /\ fileText \in Texts(UsageFragments)
  /\ analysis = NoAnalysis

SpecRef == InitRef /\ [][Analyze]_vars

SpecUsage == InitUsage /\ [][Analyze]_vars

\* The content inspection on its own: a file is drawn as a few lines, some of
\* them markers, with a run of empty lines that reaches the line limit; the
\* read of the file succeeds or fails.

RECURSIVE Blank(_)
\* n line breaks
Blank(n) ==
  IF n = 0 THEN ""
  ELSE IF n % 2 = 0 THEN LET half == Blank(n \div 2) IN half \o half
  ELSE "\n" \o Blank(n - 1)

CustomLines == {"User Function ZX()", "static  function u_x()"}
StandardLines == {"#include \"protheus.ch\"", "Function MATA010()"}
ContentLines == CustomLines \cup StandardLines \cup {"x := 1", Blank(ANALYZE_LINES - 2)}

RECURSIVE JoinLines(_)
JoinLines(parts) ==
  IF parts = <<>> THEN ""
  ELSE IF Len(parts) = 1 THEN Head(parts)
  ELSE Head(parts) \o "\n" \o JoinLines(Tail(parts))

ContentTexts ==
  {JoinLines(parts) : parts \in UNION {[1..n -> ContentLines] : n \in 0..MaxFragments}}

\* analyzeFileContent on the file returns
InspectContent ==
  /\ analysis = NoAnalysis
  /\ \E ok \in BOOLEAN :
       analysis' = [none |-> FALSE, ok |-> ok,
                    standard |-> AnalyzeRead([ok |-> ok,
                                              content |-> IF ok THEN fileText ELSE ""])]
  /\ UNCHANGED <<standardPrefixCache, discoveredPrefixes, processEnv, st, lastCall, decided,
                 discoveryStarts, started, fileText>>

InitContent ==
  /\ ProcInit /\ processEnv.REPO_TOTVS_STANDARD = ""
  /\ fileText \in ContentTexts
  /\ analysis = NoAnalysis

SpecContent == InitContent /\ [][InspectContent]_vars

\* The finder on its own: a routine name is normalized and looked for under
\* a root.

FindNames ==
  {"zdup", "ZDUP", "u_zdup", "Zdup.PRW", "zdeep", "ZDEEP.prw", "zfar", "zlost", "zdir", "U_",
   "mata010", "MATA010", "ZCAD001", "zcad001", "zbrw01", "HOOK", "QQQA001", "a", "B", "f",
   "h", "i", "nothere"}
FindRoots == Roots \cup {"/tree", "/dup", "/none"}

\* findRoutineFile(root, normalizeRoutineName(fileText)) returns
FindFile ==
  /\ analysis = NoAnalysis
  /\ \E root \in FindRoots :
     \E normalized \in {normalizeRoutineName(fileText)} :
       analysis' = [none |-> FALSE, root |-> root, variations |-> normalized.variations,
                    file |-> findRoutineFile(root, normalized)]
  /\ UNCHANGED <<standardPrefixCache, discoveredPrefixes, processEnv, st, lastCall, decided,
                 discoveryStarts, started, fileText>>

InitFind ==
  /\ ProcInit /\ processEnv.REPO_TOTVS_STANDARD = ""
  /\ fileText \in FindNames
  /\ analysis = NoAnalysis

SpecFind == InitFind /\ [][FindFile]_vars

\* The name resolver on its own: a routine name is drawn from short fragments
\* and normalizeRoutineName is called on it, more than once.

MaxCalls == 2

NameFragments == {"U_", "u_", "mata010", "ZCAD", ".prw", ".PRW", ".Tlpp", ".prx", " "}

\* normalizeRoutineName(fileText) returns; a name it throws on has no result
Normalize ==
  /\ ~InvalidRoutine(fileText)
  /\ IF analysis.none THEN TRUE ELSE analysis.calls < MaxCalls
  /\ \E normalized \in {normalizeRoutineName(fileText)} :
       analysis' = [none |-> FALSE,
                    calls |-> IF analysis.none THEN 1 ELSE analysis.calls + 1,
                    first |-> IF analysis.none THEN normalized ELSE analysis.first,
                    normalized |-> normalized]
  /\ UNCHANGED <<standardPrefixCache, discoveredPrefixes, processEnv, st, lastCall, decided,
                 discoveryStarts, started, fileText>>

InitName ==
  /\ ProcInit /\ processEnv.REPO_TOTVS_STANDARD = ""
  /\ fileText \in Texts(NameFragments)
  /\ analysis = NoAnalysis

SpecName == InitName /\ [][Normalize]_vars

\* The file indexer on its own: getAllFilesRecursive is called on a directory
\* with a list of lower-case extensions, as its callers pass them, and a depth
\* limit.

MaxDepthBound == 3

IndexDirs == {"/tree", "/tree/sub", "/tree/sub/sub2", "/tree/locked", "/hml", "/prd"}
ExtensionLists == (SUBSET (SOURCE_EXTENSIONS \cup {".txt"})) \ {{}}

\* getAllFilesRecursive(fileText, extensions, maxDepth) resolves
IndexTree ==
  /\ analysis.none
  /\ analysis' = [analysis EXCEPT
                    !.none = FALSE,
                    !.files = getAllFilesRecursive(fileText, analysis.extensions,
                                                   analysis.maxDepth, 0)]
  /\ UNCHANGED <<standardPrefixCache, discoveredPrefixes, processEnv, st, lastCall, decided,
                 discoveryStarts, started, fileText>>

InitIndex ==
  /\ ProcInit /\ processEnv.REPO_TOTVS_STANDARD = ""
  /\ fileText \in IndexDirs
  /\ analysis \in {[none |-> TRUE, extensions |-> e, maxDepth |-> d, files |-> <<>>] :
                     e \in ExtensionLists, d \in 0..MaxDepthBound}

SpecIndex == InitIndex /\ [][IndexTree]_vars

\* ------------------------------------------------------------- properties

\* the name has no U_ prefix and its upper-cased form starts with an entry of
\* the built-in prefix table
BuiltInStandardName(name) ==
  /\ ~StartsWith(ToUpper(name), "U_")
  /\ \E prefix \in KNOWN_STANDARD_PREFIXES : StartsWith(ToUpper(name), prefix)

\* C1: in every reachable state, an isStandardRoutine call whose routine name
\* begins with U_ (in any letter case) returns custom (false).
C1_CustomPrefixIsCustom ==
  (~lastCall.none /\ StartsWith(ToUpper(lastCall.name), "U_")) => lastCall.result = FALSE

\* C2: in every reachable state, an isStandardRoutine call without a file path
\* returns standard (true) for a name that has no U_ prefix and starts with an
\* entry of the built-in prefix table.
C2_BuiltInPrefixIsStandard ==
  (~lastCall.none /\ ~lastCall.hasFile /\ BuiltInStandardName(lastCall.name))
    => lastCall.result = TRUE

\* C3: with requests served one after another, a call of isStandardRoutine for
\* a key that an earlier call has already decided returns the boolean of that
\* first decision and reads no file, with or without a file path.
C3_Memoized ==
  (~lastCall.none /\ lastCall.known)
    => (lastCall.result = decided[lastCall.key] /\ ~lastCall.read)

\* a call that was given a file path, for a key decided earlier, has returned
C3_Witness == ~lastCall.none /\ lastCall.known /\ lastCall.hasFile

\* C4: with requests in flight at the same time, a cache entry, once written,
\* is never removed and never replaced by a different value.
C4_CacheEntriesStable ==
  [][\A k \in DOMAIN standardPrefixCache :
       k \in DOMAIN standardPrefixCache' /\ standardPrefixCache'[k] = standardPrefixCache[k]]_vars

\* C5: over the life of the process discoverStandardPrefixes is started at
\* most once, whatever the vendor-standard tree holds.
C5_DiscoveryAtMostOnce == discoveryStarts <= 1

SearchDone(p) == st[p].pc = "done" /\ st[p].resp.tag = "searchResult"

HasRowFor(p, filePath) ==
  \E k \in 1..Len(st[p].resp.results) : st[p].resp.results[k].filePath = filePath

\* the files of the searched tree that are read and reference the table
Referencing(p) ==
  {k \in 1..Len(st[p].files) :
     /\ FileFacts[st[p].files[k]].ok
     /\ FileFacts[st[p].files[k]].ref[ToUpper(st[p].params.table)]}

\* C6: a search-by-table over a tree with a file that references the table
\* and whose name starts with a built-in prefix (no U_) returns no row for the
\* file when includeStandard is false, and a row for it when includeStandard
\* is true and the result cap was not reached.
C6_StandardFilter ==
  \A p \in Procs : SearchDone(p) =>
    \A k \in Referencing(p) :
      BuiltInStandardName(FileFacts[st[p].files[k]].fileName) =>
        IF st[p].params.includeStandard
        THEN Len(st[p].resp.results) < st[p].params.maxResults => HasRowFor(p, st[p].files[k])
        ELSE ~HasRowFor(p, st[p].files[k])

\* the answer isStandardRoutine has for the file now
ClassifiedStandard(filePath) ==
  LET c == isStandardRoutine(FileFacts[filePath].fileName, TRUE, standardPrefixCache,
                             discoveredPrefixes)
  IN IF c.inspect THEN FileFacts[filePath].standard ELSE c.result

\* Q: the indexed files that reference the table and are not excluded as standard
Qualifying(p) ==
  {k \in Referencing(p) : st[p].params.includeStandard \/ ~ClassifiedStandard(st[p].files[k])}

Min(a, b) == IF a <= b THEN a ELSE b

\* C7: for every maxResults, search-by-table returns exactly min(maxResults, Q)
\* rows, Q the number of indexed files that reference the table and are not
\* excluded as standard.
C7_ExactlyMinRows ==
  \A p \in Procs : SearchDone(p) =>
    Len(st[p].resp.results) = Min(st[p].params.maxResults, Cardinality(Qualifying(p)))

\* C8: in the returned row list every row's category rank is at most the next
\* row's, and with equal ranks its occurrence count is at least the next row's.
C8_Sorted ==
  \A p \in Procs : SearchDone(p) =>
    \A k \in 1..(Len(st[p].resp.results) - 1) :
      LET a == st[p].resp.results[k]
          b == st[p].resp.results[k + 1]
      IN \/ typeOrder(a.usageType) < typeOrder(b.usageType)
         \/ typeOrder(a.usageType) = typeOrder(b.usageType) /\ a.references >= b.references

\* a search has answered with rows it did not collect in the returned order,
\* two of them of one category
C8_Witness ==
  \E p \in Procs :
    /\ SearchDone(p)
    /\ st[p].resp.results # st[p].results
    /\ \E k \in 1..(Len(st[p].resp.results) - 1) :
         st[p].resp.results[k].usageType = st[p].resp.results[k + 1].usageType

\* C9: the usage category of an analysed text is the first that applies in
\* the precedence Browse > CRUD > Query > Report > Integration > Other: Browse
\* exactly when the browse flag is set, CRUD exactly when the browse flag is
\* clear and one of insert/update/delete is set, and one of the other four
\* only when all four flags are clear.
C9_CategoryPrecedence ==
  ~analysis.none =>
    LET u == analysis.usage
        upper == ToUpper(fileText)
        crud == u.hasInsert \/ u.hasUpdate \/ u.hasDelete
        query == Includes(upper, "TCQUERY") \/ Includes(upper, "SELECT ")
        report == Includes(upper, "TMSPRINTER") \/ Includes(upper, "TREPORT")
        integration == Includes(upper, "WSSERVICE") \/ Includes(upper, "WSRESTFUL")
    IN /\ u.usageType = "Browse" <=> u.hasBrowse
       /\ u.usageType = "CRUD" <=> (~u.hasBrowse /\ crud)
       /\ u.usageType \in {"Query", "Report", "Integration", "Other"} <=> (~u.hasBrowse /\ ~crud)
       /\ (~u.hasBrowse /\ ~crud) =>
            /\ u.usageType = "Query" <=> query
            /\ u.usageType = "Report" <=> (~query /\ report)
            /\ u.usageType = "Integration" <=> (~query /\ ~report /\ integration)
            /\ u.usageType = "Other" <=> (~query /\ ~report /\ ~integration)

\* a text with the browse flag and a CRUD flag set was analysed
C9_Witness ==
  /\ ~analysis.none
  /\ analysis.usage.hasBrowse
  /\ analysis.usage.hasInsert \/ analysis.usage.hasUpdate \/ analysis.usage.hasDelete

\* the places where table starts in text
Occurrences(text, table) ==
  {i \in 1..(Len(text) - Len(table) + 1) : SubSeq(text, i, i + Len(table) - 1) = table}

\* the occurrence at i lies inside a longer identifier
InsideIdentifier(text, table, i) ==
  \/ i > 1 /\ IsWordChar(Ch(text, i - 1))
  \/ i + Len(table) <= Len(text) /\ IsWordChar(Ch(text, i + Len(table)))

\* C10: hasTableReference is true when the upper-cased text holds the table as
\* a whole word (bare, in DbSelectArea("T"), in ("T") or before ->FIELD), and
\* false when every occurrence of the table lies inside a longer identifier.
C10_WholeWordReference ==
  ~analysis.none =>
    LET upper == ToUpper(fileText)
        whole == \E i \in Occurrences(upper, analysis.table) :
                   ~InsideIdentifier(upper, analysis.table, i)
    IN /\ whole => analysis.ref
       /\ ~whole => ~analysis.ref

\* ------------------------------------------------------------ properties
\* of the repository locator and of the responses

\* handler p serves a call that names a routine
Locating(p) == st[p].pc # "idle" /\ st[p].params.action # "searchByTable"

\* C11: for every locate request that gives no explicit root and a concrete
\* environment token (not AUTO), the root that is searched and reported in
\* the metadata is the path configured for that token, whatever the routine
\* name is and however it is classified.
C11_ConcreteTokenRoot ==
  \A p \in Procs :
    (/\ Locating(p)
     /\ st[p].params.repoPath = ""
     /\ st[p].params.env # "AUTO"
     /\ st[p].fsRead) =>
      /\ st[p].finalRepoPath = processEnv[envVarMap(st[p].params.env)]
      /\ (st[p].pc = "done" /\ st[p].resp.tag = "actionResult") =>
           st[p].resp.metadata.repoPath = processEnv[envVarMap(st[p].params.env)]

\* the request of p got past the validation of its input
RootChosen(p) == st[p].pc \in {"discover", "find", "scan", "inspect"} \/
                 (st[p].pc = "done" /\ st[p].resp.tag \notin {"missingTable", "missingRoutine",
                                                                "unexpected"})

\* C12: whenever a locate or search-by-table request supplies an explicit
\* root, that path is the root searched, whatever the environment token and
\* the routine's classification are, no configured environment path is
\* consulted, and the response metadata carries the environment label MANUAL.
C12_ManualOverride ==
  \A p \in Procs :
    (RootChosen(p) /\ st[p].params.repoPath # "") =>
      /\ st[p].finalRepoPath = st[p].params.repoPath
      /\ st[p].finalEnv = "MANUAL"
      /\ st[p].params.action = "searchByTable" =>
           st[p].files = Index[st[p].params.repoPath][SEARCH_MAX_DEPTH]
      /\ st[p].pc = "done" =>
           /\ st[p].resp.tag # "notConfigured"
           /\ st[p].resp.tag \in {"searchResult", "actionResult"} =>
                /\ st[p].resp.metadata.env = "MANUAL"
                /\ st[p].resp.metadata.repoPath = st[p].params.repoPath
           /\ st[p].resp.tag = "notFound" =>
                /\ st[p].resp.env = "MANUAL"
                /\ st[p].resp.repoPath = st[p].params.repoPath

\* a search with an explicit root has answered although the path of its
\* environment token is not configured
C12_Witness ==
  \E p \in Procs :
    /\ SearchDone(p)
    /\ st[p].params.repoPath # ""
    /\ st[p].params.env \notin {"AUTO", "HML"}
    /\ processEnv[envVarMap(st[p].params.env)] = ""
    /\ st[p].resp.metadata.env = "MANUAL"

\* the settings getRepoPath knows
RepoSettings == {"REPO_HML", "REPO_PRD", "REPO_TOTVS_STANDARD"}

\* no explicit root was given and the environment resolved for the request of
\* p has no configured path
Unconfigured(p) ==
  /\ st[p].pc # "idle"
  /\ st[p].params.repoPath = ""
  /\ st[p].finalEnv \in EnvTokens \ {"AUTO"}
  /\ processEnv[envVarMap(st[p].finalEnv)] = ""

\* C13: if no explicit root is given and the environment resolved for the
\* request has no configured path, the request fails with ok=false and a
\* message that names the missing setting (REPO_HML, REPO_PRD or
\* REPO_TOTVS_STANDARD), before any directory or file of a repository is read.
C13_ConfigurationMissing ==
  \A p \in Procs :
    Unconfigured(p) =>
      /\ st[p].pc = "done"
      /\ st[p].resp.ok = FALSE
      /\ st[p].resp.tag = "notConfigured"
      /\ st[p].resp.message.error.envVar = envVarMap(st[p].finalEnv)
      /\ st[p].resp.message.error.envVar \in RepoSettings
      /\ ~st[p].fsRead

\* a locate of a custom routine, not the first request the process served,
\* has failed for want of a configured path
C13_Witness ==
  \E p \in Procs :
    /\ Unconfigured(p)
    /\ st[p].params.action = "getSourceCode"
    /\ ~st[p].isStandard
    /\ st[p].resp.tag = "notConfigured"
    /\ started > 1
    /\ \E k \in DOMAIN standardPrefixCache : TRUE

\* the routine of the call is missing, not a string, empty or blank
BadRoutine(params) ==
  \/ params.routineType # "string"
  \/ \A i \in 1..Len(params.routine) : IsSpace(Ch(params.routine, i))

\* C14: a locate request whose routine name is missing, not a string, empty
\* or made only of whitespace fails at once with ok=false: no repository root
\* is resolved, no file or directory is read, and the classification cache and
\* the discovered-prefix set are left unchanged.
C14_InvalidInput ==
  /\ [](\A p \in Procs :
          (Locating(p) /\ BadRoutine(st[p].params)) =>
            /\ st[p].pc = "done"
            /\ st[p].resp.ok = FALSE
            /\ st[p].finalRepoPath = ""
            /\ st[p].finalEnv = ""
            /\ ~st[p].fsRead)
  /\ [][\A p \in Procs :
          (st[p].pc = "idle" /\ st'[p].pc # "idle" /\ st'[p].params.action # "searchByTable"
             /\ BadRoutine(st'[p].params)) =>
            /\ standardPrefixCache' = standardPrefixCache
            /\ discoveredPrefixes' = discoveredPrefixes
            /\ discoveryStarts' = discoveryStarts]_vars

\* a blank routine was refused by a process whose cache holds a decision
C14_Witness ==
  \E p \in Procs :
    /\ Locating(p)
    /\ st[p].params.routineType = "string"
    /\ st[p].params.routine = "  "
    /\ st[p].resp.tag = "unexpected"
    /\ \E k \in DOMAIN standardPrefixCache : TRUE

\* no variation of routine is an entry of root, and no file indexed from root
\* has the name of a variation in any letter case
NoMatch(root, routine) ==
  LET vs == normalizeRoutineName(routine).variations
      entries == ReadDir(root).entries
      indexed == Index[root][FIND_MAX_DEPTH]
  IN /\ \A i \in 1..Len(vs) : \A k \in 1..Len(entries) : entries[k].name # vs[i]
     /\ \A i \in 1..Len(vs) : \A k \in 1..Len(indexed) :
          ToUpper(Basename(indexed[k])) # ToUpper(vs[i])

\* the locate of p has searched its root
Searched(p) ==
  /\ Locating(p)
  /\ st[p].pc = "done"
  /\ st[p].resp.tag \in {"notFound", "actionResult", "invalidAction"}

\* C15: when no variation exists directly under the root and no indexed file
\* matches a variation, the locate request returns (it does not throw) with
\* ok=false, a message listing the first ten variations in NameResolver order,
\* and diagnostics holding the searched root and the full variation list.
C15_NotFound ==
  \A p \in Procs :
    (Searched(p) /\ NoMatch(st[p].finalRepoPath, st[p].params.routine)) =>
      LET vs == normalizeRoutineName(st[p].params.routine).variations
      IN /\ st[p].resp.tag = "notFound"
         /\ st[p].resp.ok = FALSE
         /\ Len(st[p].resp.message.listed) = Min(Len(vs), LISTED_VARIATIONS)
         /\ \A i \in 1..Len(st[p].resp.message.listed) : st[p].resp.message.listed[i] = vs[i]
         /\ st[p].resp.debug.searchedPath = st[p].finalRepoPath
         /\ st[p].resp.debug.searchedVariations = vs

\* ------------------------------------------------------------ properties
\* of the name resolver

\* C16: for every non-empty routine name, normalizeRoutineName returns a
\* variation list that is non-empty and holds no string twice, and two calls
\* with the same input return the same list in the same order.
C16_VariationsDistinct ==
  ~analysis.none =>
    LET vs == analysis.normalized.variations
    IN /\ Len(vs) > 0
       /\ \A i, j \in 1..Len(vs) : vs[i] = vs[j] => i = j
       /\ vs = analysis.first.variations

\* a name whose upper-cased form is the name itself was resolved twice
C16_Witness ==
  /\ ~analysis.none
  /\ analysis.calls > 1
  /\ analysis.normalized.baseName = analysis.normalized.baseNameUpper
  /\ analysis.normalized.baseName # ""

\* the text without the white space at its ends
Trimmed(text) ==
  CHOOSE t \in {SubSeq(text, i, j) : i \in 1..(Len(text) + 1), j \in 0..Len(text)} :
    /\ \E lead, trail \in 0..Len(text) :
         /\ lead + Len(t) + trail = Len(text)
         /\ t = SubSeq(text, lead + 1, lead + Len(t))
         /\ \A i \in (1..lead) \cup ((Len(text) - trail + 1)..Len(text)) : IsSpace(Ch(text, i))
    /\ t # "" => ~IsSpace(Ch(t, 1)) /\ ~IsSpace(Ch(t, Len(t)))

\* the position of x in xs, 0 if it is not there
Position(xs, x) == IF \E i \in 1..Len(xs) : xs[i] = x
                   THEN CHOOSE i \in 1..Len(xs) : xs[i] = x /\ \A j \in 1..(i - 1) : xs[j] # x
                   ELSE 0

\* C17: for every non-empty routine name, the base name is the trimmed input
\* with one trailing .prw/.tlpp/.prx (any case) removed, the prefix-stripped
\* form is the upper-cased base name without a leading U_, and the variation
\* list holds every X+E for X in {base name, upper-cased base name, U_-added
\* form, U_-stripped form} and E in {"", .prw, .PRW, .tlpp, .TLPP, .prx, .PRX},
\* the four un-suffixed forms ahead of every suffixed one.
C17_Variations ==
  ~analysis.none =>
    LET n == analysis.normalized
        original == Trimmed(fileText)
        endings == {e \in {".prw", ".tlpp", ".prx"} :
                      /\ Len(original) >= Len(e)
                      /\ ToLower(SubSeq(original, Len(original) - Len(e) + 1, Len(original))) = e}
        upper == ToUpper(n.baseName)
        added == IF StartsWith(upper, "U_") THEN upper ELSE "U_" \o upper
        forms == {n.baseName, upper, added, n.withoutPrefix}
        suffixes == {".prw", ".PRW", ".tlpp", ".TLPP", ".prx", ".PRX"}
    IN /\ \A e \in endings : n.baseName \o SubSeq(original, Len(original) - Len(e) + 1,
                                                  Len(original)) = original
       /\ endings = {} => n.baseName = original
       /\ n.baseNameUpper = upper
       /\ n.withPrefix = added
       /\ IF StartsWith(upper, "U_") THEN "U_" \o n.withoutPrefix = upper
          ELSE n.withoutPrefix = upper
       /\ \A x \in forms : Position(n.variations, x) > 0
       /\ \A x \in forms : \A e \in suffixes :
            /\ Position(n.variations, x \o e) > 0
            /\ \A y \in forms : Position(n.variations, y) < Position(n.variations, x \o e)

\* a name with the prefix in lower case and an extension in upper case, with
\* blanks around it, was resolved
C17_Witness ==
  /\ ~analysis.none
  /\ analysis.normalized.baseName # ToUpper(analysis.normalized.baseName)
  /\ analysis.normalized.withoutPrefix # analysis.normalized.baseNameUpper
  /\ Len(analysis.normalized.baseName) + 4 < Len(fileText)
  /\ EndsWith(fileText, ".PRW")

\* ------------------------------------------------------------ properties
\* of the scan and of the index

\* the scan of p is at a file that cannot be read
AtUnreadable(p) == st[p].pc = "scan" /\ ~FileFacts[st[p].files[st[p].i]].ok

\* C18: if reading one indexed file fails during a search-by-table, the scan
\* goes on to the remaining files and the response is ok=true with the rows,
\* in the order, of a search over the same tree without that file: the step
\* at the file changes nothing but the position of the scan, and the response
\* holds no row for it.
C18_ReadFailureIsolated ==
  /\ [][\A p \in Procs :
          (AtUnreadable(p) /\ st'[p] # st[p]) =>
            /\ st'[p].results = st[p].results
            /\ standardPrefixCache' = standardPrefixCache
            /\ discoveredPrefixes' = discoveredPrefixes
            /\ IF st[p].i < Len(st[p].files)
               THEN st'[p] = [st[p] EXCEPT !.i = st[p].i + 1]
               ELSE st'[p] = Finished(st[p])]_vars
  /\ [](\A p \in Procs :
          SearchDone(p) =>
            /\ st[p].resp.ok = TRUE
            /\ \A k \in 1..Len(st[p].files) :
                 ~FileFacts[st[p].files[k]].ok => ~HasRowFor(p, st[p].files[k]))

\* a search has answered with a row for a file that comes after one that
\* could not be read
C18_Witness ==
  \E p \in Procs :
    /\ SearchDone(p)
    /\ \E k \in 1..Len(st[p].files) :
         /\ ~FileFacts[st[p].files[k]].ok
         /\ \E j \in (k + 1)..Len(st[p].files) : HasRowFor(p, st[p].files[j])

\* the sub-directories of d that the walk enters
Entered(d) ==
  {PathJoin(d, e.name) :
     e \in {x \in Range(ReadDir(d).entries) :
              x.dir /\ ToLower(x.name) \notin {"node_modules", ".git", "bin", "obj", "backup"}}}

RECURSIVE Reached(_, _)
\* the directories reached from root through at most depth nested
\* directories, none of them with an ignored name
Reached(root, depth) ==
  IF depth = 0 THEN {root}
  ELSE Reached(root, depth - 1) \cup UNION {Entered(d) : d \in Reached(root, depth - 1)}

\* the files of directory d whose extension is in extensions, in any case
SourceFilesOf(d, extensions) ==
  {PathJoin(d, e.name) :
     e \in {x \in Range(ReadDir(d).entries) :
              ~x.dir /\ \E ext \in extensions : EndsWith(ToLower(x.name), ext)}}

\* C19: getAllFilesRecursive(root, exts, maxDepth) returns exactly the files
\* whose extension, compared case-insensitively, is in exts and that lie in
\* root or in a directory reached from root through at most maxDepth nested
\* directories, none of them named node_modules, .git, bin, obj or backup (any
\* letter case); a directory that cannot be read contributes no files and does
\* not stop the rest of the tree from being indexed.
C19_IndexedFiles ==
  ~analysis.none =>
    /\ Range(analysis.files) =
         UNION {SourceFilesOf(d, analysis.extensions) : d \in Reached(fileText, analysis.maxDepth)}
    /\ \A i, j \in 1..Len(analysis.files) : analysis.files[i] = analysis.files[j] => i = j

\* a tree with ignored folders, an unreadable folder and folders below the
\* depth limit was indexed, and files listed after the unreadable folder were
\* returned
C19_Witness ==
  /\ ~analysis.none
  /\ fileText = "/tree"
  /\ analysis.maxDepth = 2
  /\ "/tree/sub/sub2/g.TLPP" \in Range(analysis.files)
  /\ "/tree/backups/j.prw" \in Range(analysis.files)

\* ------------------------------------------------------------ properties
\* of the negative outcomes

\* the response names the root that was searched, the variations that were
\* tried, or a count of files
HasDiagnostics(response) ==
  \/ "repoPath" \in DOMAIN response
  \/ "metadata" \in DOMAIN response /\ "repoPath" \in DOMAIN response.metadata
  \/ "debug" \in DOMAIN response /\
       (DOMAIN response.debug \cap {"searchedPath", "searchedVariations", "normalized"}) # {}
  \/ "totalFound" \in DOMAIN response

\* C20: every response with ok=false, from either request shape and for every
\* cause (missing input, unconfigured root, routine not found, invalid action,
\* failed action), carries diagnostic context next to its message: at least
\* one of the searched root, the candidate variations or a file count.
C20_DiagnosticContext ==
  \A p \in Procs :
    (st[p].pc = "done" /\ st[p].resp.ok = FALSE) => HasDiagnostics(st[p].resp)

\* ------------------------------------------------------------ properties
\* of the envelope, the classifier and the finder

\* C21: execute never throws: for every input of either request shape it
\* resolves to an envelope with a boolean ok, every ok=false envelope has a
\* message, and every ok=true envelope has metadata holding the resolved
\* environment label and the resolved root.
C21_Envelope ==
  \A p \in Procs :
    /\ st[p].pc \in {"idle", "discover", "find", "scan", "inspect", "done"}
    /\ st[p].pc = "done" =>
         /\ "ok" \in DOMAIN st[p].resp
         /\ st[p].resp.ok \in BOOLEAN
         /\ ~st[p].resp.ok => "message" \in DOMAIN st[p].resp
         /\ st[p].resp.ok =>
              /\ "metadata" \in DOMAIN st[p].resp
              /\ st[p].resp.metadata.env = st[p].finalEnv
              /\ st[p].resp.metadata.repoPath = st[p].finalRepoPath
              /\ st[p].finalEnv # ""
              /\ st[p].finalRepoPath # ""

\* a report was rendered for a file under an explicit root
C21_Witness ==
  \E p \in Procs :
    /\ st[p].pc = "done"
    /\ st[p].params.action = "renderReportMarkdown"
    /\ st[p].resp.ok
    /\ st[p].finalEnv = "MANUAL"

\* the name starts with four letters followed by three digits
FourLettersThreeDigits(name) ==
  /\ Len(name) >= 7
  /\ \A k \in 1..4 : IsUpperLetter(Ch(name, k))
  /\ \A k \in 5..7 : IsDigit(Ch(name, k))

\* C22: with requests served one after another, an isStandardRoutine call for
\* a key not decided before answers by the first rule that applies: a name
\* with the U_ prefix is custom; else a stripped upper-cased name starting
\* with a built-in or discovered prefix is standard, and in both cases no
\* file is read; else a supplied file path gives the result of inspecting
\* that file; and only without a file path is the answer standard exactly
\* for a name of four letters then three digits.
C22_FirstApplicableRule ==
  (~lastCall.none /\ ~lastCall.known) =>
    LET upper == ToUpper(lastCall.name)
        custom == Len(upper) >= 2 /\ SubSeq(upper, 1, 2) = "U_"
        stripped == IF custom THEN SubSeq(upper, 3, Len(upper)) ELSE upper
        prefixed == \E prefix \in KNOWN_STANDARD_PREFIXES \cup discoveredPrefixes :
                      StartsWith(stripped, ToUpper(prefix))
    IN /\ lastCall.key = stripped
       /\ IF custom THEN ~lastCall.result /\ ~lastCall.read
          ELSE IF prefixed THEN lastCall.result /\ ~lastCall.read
          ELSE IF lastCall.hasFile
          THEN lastCall.read /\ lastCall.result = FileFacts[lastCall.filePath].standard
          ELSE ~lastCall.read /\ lastCall.result = FourLettersThreeDigits(stripped)

\* a first call with a file path for a name of four letters and three digits
\* outside every known prefix has returned what the file's content says
C22_Witness ==
  /\ ~lastCall.none /\ ~lastCall.known /\ lastCall.hasFile /\ lastCall.read
  /\ FourLettersThreeDigits(lastCall.key)

\* where the lines of text start: 0 and every line break
LineStarts(text) == {0} \cup {i \in 1..Len(text) : Ch(text, i) = "\n"}

\* the number of the line that starts after position a
LineNumber(text, a) == 1 + Cardinality({i \in 1..a : Ch(text, i) = "\n"})

\* the line that starts after position a is exactly `line`
IsLineAt(text, a, line) ==
  /\ a + Len(line) <= Len(text)
  /\ SubSeq(text, a + 1, a + Len(line)) = line
  /\ (a + Len(line) = Len(text) \/ Ch(text, a + Len(line) + 1) = "\n")

\* the numbers of the lines of text that are a marker of kind
MarkerLines(text, kind) ==
  {LineNumber(text, a) :
     a \in {x \in LineStarts(text) : \E line \in kind : IsLineAt(text, x, line)}}

\* C23: analyzeFileContent answers custom for a file that cannot be read; for
\* a file that was read it answers custom exactly when one of the first 200
\* lines holds a custom marker, whatever standard markers the file holds and
\* whatever stands after line 200.
C23_ContentInspection ==
  analysis.none \/
    (IF analysis.ok
     THEN analysis.standard =
            ~(\E k \in MarkerLines(fileText, CustomLines) : k <= ANALYZE_LINES)
     ELSE ~analysis.standard)

\* a file whose only custom marker stands on line 201 was read and judged standard
C23_Witness ==
  IF analysis.none THEN FALSE
  ELSE /\ analysis.ok /\ analysis.standard
       /\ MarkerLines(fileText, CustomLines) = {ANALYZE_LINES + 1}

\* the variations, by position, that name an entry of the root
AtRoot(root, variations) ==
  {i \in 1..Len(variations) : \E e \in Range(ReadDir(root).entries) : e.name = variations[i]}

\* the source files within three nested directories of root whose name equals
\* a variation, letter case aside
DeepMatches(root, variations) ==
  {f \in UNION {SourceFilesOf(d, SOURCE_EXTENSIONS) : d \in Reached(root, FIND_MAX_DEPTH)} :
     \E i \in 1..Len(variations) : ToUpper(Basename(f)) = ToUpper(variations[i])}

\* C24: findRoutineFile returns root/v for the first variation v, in list
\* order, that exists directly under root, whatever lies deeper; when no
\* variation exists at the root it returns a file indexed to depth 3 whose
\* upper-cased basename equals an upper-cased variation; it returns not-found
\* exactly when there is neither.
C24_RootBeforeIndex ==
  analysis.none \/
    (\E atRoot \in {AtRoot(analysis.root, analysis.variations)} :
     \E deep \in {DeepMatches(analysis.root, analysis.variations)} :
       /\ atRoot # {} =>
            analysis.file =
              PathJoin(analysis.root, analysis.variations[CHOOSE i \in atRoot : \A j \in atRoot : i <= j])
       /\ (atRoot = {} /\ deep # {}) => analysis.file \in deep
       /\ (analysis.file = "") <=> (atRoot = {} /\ deep = {}))

\* x is 3 or 4 upper-case letters that start the name of a file of the vendor
\* tree whose content inspection answers standard
VendorPrefix(x) ==
  /\ Len(x) \in {3, 4}
  /\ \A k \in 1..Len(x) : IsUpperLetter(Ch(x, k))
  /\ \E f \in IndexedFiles :
       /\ StartsWith(f, processEnv.REPO_TOTVS_STANDARD \o "/")
       /\ processEnv.REPO_TOTVS_STANDARD # ""
       /\ StartsWith(Basename(f), x)
       /\ FileFacts[f].standard

\* C25: the discovered-prefix set only grows; every entry is 3 or 4 upper-case
\* letters taken from the start of the name of a vendor-tree file whose
\* content inspection returned standard; and no step of a search-by-table
\* request or of a locate request with an explicit root changes the set.
C25_DiscoveredPrefixes ==
  /\ [](\A x \in discoveredPrefixes : VendorPrefix(x))
  /\ [][/\ discoveredPrefixes \subseteq discoveredPrefixes'
        /\ discoveredPrefixes' # discoveredPrefixes =>
             \E p \in Procs : /\ st[p].pc = "discover"
                              /\ st[p].params.action # "searchByTable"
                              /\ st[p].params.repoPath = ""]_vars

\* prefixes were discovered and a search-by-table request has run to its end
\* after that
C25_Witness == discoveredPrefixes # {} /\ \E p \in Procs : SearchDone(p)

\* the rows of a response, by position, that the summary field count counts:
\* the rows of types Browse, CRUD and Report, and under otherRoutines the rows
\* of every other type
CountedUnder(rows, count) ==
  {k \in 1..Len(rows) :
     CASE count = "browseRoutines" -> rows[k].usageType = "Browse"
       [] count = "crudRoutines" -> rows[k].usageType = "CRUD"
       [] count = "reportRoutines" -> rows[k].usageType = "Report"
       [] OTHER -> rows[k].usageType \notin {"Browse", "CRUD", "Report"}}

SummaryCounts == {"browseRoutines", "crudRoutines", "reportRoutines", "otherRoutines"}

\* C26: in every search-by-table response each summary count equals the
\* number of returned rows of its category, every returned row is counted in
\* exactly one count, and the counts sum to totalFound, which is the number of
\* returned rows.
C26_SummaryAgrees ==
  \A p \in Procs :
    SearchDone(p) =>
      \E r \in {st[p].resp} :
        /\ \A count \in SummaryCounts :
             r.summary[count] = Cardinality(CountedUnder(r.results, count))
        /\ \A k \in 1..Len(r.results) :
             Cardinality({count \in SummaryCounts : k \in CountedUnder(r.results, count)}) = 1
        /\ r.summary.browseRoutines + r.summary.crudRoutines + r.summary.reportRoutines
             + r.summary.otherRoutines = r.totalFound
        /\ r.totalFound = Len(r.results)

\* a response with rows of three categories, one of them outside Browse, CRUD
\* and Report
C26_Witness ==
  \E p \in Procs :
    /\ SearchDone(p)
    /\ Cardinality({st[p].resp.results[k].usageType : k \in 1..Len(st[p].resp.results)}) >= 3
    /\ st[p].resp.summary.otherRoutines >= 1

\* C27: for every routine name that normalizeRoutineName accepts, every entry
\* of the variation list is a non-empty string, and no locate request answers
\* with the root directory as the routine's file.
C27_NoEmptyVariation ==
  \A p \in Procs :
    (Locating(p) /\ ~BadRoutine(st[p].params)) =>
      /\ \A v \in Range(normalizeRoutineName(st[p].params.routine).variations) : v # ""
      /\ (st[p].pc = "done" /\ st[p].resp.tag = "actionResult") =>
           st[p].resp.metadata.filePath # st[p].finalRepoPath

\* C28: every row of a search-by-table response has an occurrence count of at
\* least 1.
C28_RowsHaveOccurrences ==
  \A p \in Procs :
    SearchDone(p) =>
      \A k \in 1..Len(st[p].resp.results) : st[p].resp.results[k].references >= 1

\* the responses the client was sent, in order
Log == IF analysis.none THEN <<>> ELSE analysis.log

\* C29: with requests served one after another over an unchanged tree, two
\* search-by-table requests with identical parameters are answered with
\* identical rows in identical order, whatever requests were served between
\* them.
C29_RepeatedSearch ==
  \A i, j \in 1..Len(Log) :
    (/\ i < j
     /\ Log[i].params = Log[j].params
     /\ Log[i].response.tag = "searchResult"
     /\ Log[j].response.tag = "searchResult")
      => Log[i].response.results = Log[j].response.results

\* a search that returned a row for ZCAD001 was repeated after a locate of
\* ZCAD001 had been served between the two
C29_Witness ==
  /\ Len(Log) = 3
  /\ Log[1].params = Log[3].params
  /\ Log[1].response.tag = "searchResult"
  /\ \E k \in 1..Len(Log[1].response.results) : Log[1].response.results[k].routine = "ZCAD001"
  /\ Log[2].params.routine = "ZCAD001"
  /\ Log[2].params.repoPath = ""

\* C30: in every response of a locate request that found the routine's file,
\* metadata.isStandard is the decision isStandardRoutine gives for the
\* requested routine name in the state of the process, whether the root came
\* from an environment token or from an explicit root.
C30_MetadataClassification ==
  \A p \in Procs :
    (Locating(p) /\ st[p].pc = "done" /\ st[p].resp.tag = "actionResult") =>
      st[p].resp.metadata.isStandard =
        isStandardRoutine(normalizeRoutineName(st[p].params.routine).baseNameUpper, FALSE,
                          standardPrefixCache, discoveredPrefixes).result

====
